---- MODULE Spec2Model ----
(***************************************************************************)
(* Agent Juliette: the Tally webhook handler (main.py), its two            *)
(* idempotence caches, the background task that runs the orchestrator and  *)
(* commits its outcome, and the orchestrator's pipeline                    *)
(* (agent/orchestrator.py).                                                *)
(*                                                                         *)
(* webhook_tally is an `async def` without an await after the body is      *)
(* read, so handlers run one at a time on the event loop.                  *)
(* process_lead_background is a plain `def`, which the framework runs in   *)
(* a thread pool: its statements interleave with the handler's.            *)
(***************************************************************************)
EXTENDS Integers, Sequences, FiniteSets, TLC

VARIABLES
    now,                    \* time.time()
    PROCESSED_LEADS_CACHE,  \* dict, insertion ordered: <<[key, val |-> [timestamp, result]]>>
    PROCESSING_LEADS_CACHE, \* dict, insertion ordered: <<[key, val |-> timestamp_start]>>
    handler,                \* the webhook_tally call in progress on the event loop
    tasks,                  \* background tasks, in the order add_task submitted them
    deliveries,             \* number of webhook POSTs received
    responses,              \* the HTTP response sent last, with the body it answers
    gen                     \* the DevisGenerator call under way: its arguments and its result

vars == <<now, PROCESSED_LEADS_CACHE, PROCESSING_LEADS_CACHE, handler, tasks,
          deliveries, responses, gen>>

----------------------------------------------------------------------------
(* Bounds *)

MaxDeliveries == 2
MaxTime == 3800

(* Program constants *)

CACHE_EXPIRY_SECONDS == 3600
PROCESSING_TIMEOUT_SECONDS == 300

(* Input domains *)

ResponseIds == {"GxZYdqj", "Kp3Lm9Q"}
ClockSteps == {1900}
TotalsTTC == {960}
ElapsedMs == {1200}

None == <<>>
Some(v) == <<v>>

----------------------------------------------------------------------------
(* Python dict, kept in insertion order *)

DictKeys(d) == {d[i].key : i \in DOMAIN d}

DictHas(d, k) == k \in DictKeys(d)

DictGet(d, k) == d[CHOOSE i \in DOMAIN d : d[i].key = k].val

DictSet(d, k, v) ==
    IF DictHas(d, k)
    THEN [i \in DOMAIN d |-> IF d[i].key = k THEN [key |-> k, val |-> v] ELSE d[i]]
    ELSE Append(d, [key |-> k, val |-> v])

DictDel(d, k) == SelectSeq(d, LAMBDA e : e.key # k)

ListKeys(d) == [i \in DOMAIN d |-> d[i].key]

----------------------------------------------------------------------------
(* Request bodies: an envelope object or an array of envelope objects *)

(* The five required form fields, in the order parse_tally_to_lead tests    *)
(* them.                                                                   *)
RequiredLabels == <<"Prénom", "Nom", "Email Pro", "Type de service", "Votre Besoin">>

(* get_field_value gives None for a field the form does not carry *)
FilledFields == [l \in {RequiredLabels[i] : i \in DOMAIN RequiredLabels} |-> Some("x")]

Payload(eventType, fields, responseId) ==
    [eventType |-> eventType, fields |-> fields, responseId |-> responseId]

(* A FORM_RESPONSE body with one required field absent, or present and empty *)
InvalidFields ==
    {[FilledFields EXCEPT ![RequiredLabels[i]] = None] : i \in DOMAIN RequiredLabels}
    \cup {[FilledFields EXCEPT !["Email Pro"] = Some("")]}

Bodies ==
    {[is_list |-> TRUE, items |-> <<>>],
     [is_list |-> FALSE,
      items |-> <<Payload("FORM_UPDATED", [FilledFields EXCEPT !["Nom"] = None], "GxZYdqj")>>]}
    \cup {[is_list |-> FALSE, items |-> <<Payload("FORM_RESPONSE", f, "GxZYdqj")>>] :
              f \in InvalidFields}
    \cup {[is_list |-> l, items |-> <<Payload("FORM_RESPONSE", FilledFields, id)>>] :
              l \in BOOLEAN, id \in ResponseIds}

(* `not value`: None and the empty string are falsy *)
Falsy(value) == value = None \/ value = Some("")

RECURSIVE FirstMissing(_, _)
FirstMissing(fields, i) ==
    IF i > Len(RequiredLabels) THEN None
    ELSE IF Falsy(fields[RequiredLabels[i]]) THEN Some(RequiredLabels[i])
    ELSE FirstMissing(fields, i + 1)

(* parse_tally_to_lead, lines 45-55: the first falsy required field raises *)
(* ValueError; otherwise the lead carries the submission id.               *)
parse_tally_to_lead_Lenient(payload) ==
    [raises |-> FALSE, lead |-> Some(payload.responseId)]

parse_tally_to_lead(payload) ==
    LET missing == FirstMissing(payload.fields, 1) IN
    IF missing # None
    THEN [raises |-> TRUE,
          exc |-> [class |-> "ValueError",
                   detail |-> "Le champ '" \o missing[1] \o "' est requis"]]
    ELSE [raises |-> FALSE, lead |-> Some(payload.responseId)]

(* webhook_tally, line 354: only FORM_RESPONSE events are processed *)
IsIgnoredEvent_Never(payload) == FALSE

IsIgnoredEvent(payload) == payload.eventType # "FORM_RESPONSE"

(* HTTPException raised inside webhook_tally's try block meets its except clauses *)

ValueErrorClasses == {"ValueError", "ValidationError", "JSONDecodeError"}

ExceptClauses(exc) ==
    IF exc.class \in ValueErrorClasses
    THEN [status |-> 422, detail |-> exc.detail]
    ELSE [status |-> 500, detail |-> "Erreur interne du serveur"]

WebhookResponse(success, message, lead_reference, data) ==
    [status |-> 200, success |-> success, message |-> message,
     lead_reference |-> lead_reference, draft_id |-> None, data |-> data]

WebhookResponseFromDict_NoData(d) ==
    WebhookResponse(d.success, d.message,
                    IF "lead_reference" \in DOMAIN d THEN Some(d.lead_reference) ELSE None,
                    None)

WebhookResponseFromDict(d) ==
    WebhookResponse(d.success, d.message,
                    IF "lead_reference" \in DOMAIN d THEN Some(d.lead_reference) ELSE None,
                    IF "data" \in DOMAIN d THEN Some(d.data) ELSE None)

IdleHandler ==
    [pc |-> "idle", body |-> [is_list |-> TRUE, items |-> <<>>], lead |-> None,
     current_time |-> 0, expired_keys |-> <<>>, expired_processing |-> <<>>]

(* No quote generator call is followed in the webhook specification *)
NoCall == [pc |-> "none"]

Sent(body, r) == <<[body |-> body, response |-> r]>>

Respond(r) ==
    /\ responses' = Sent(handler.body, r)
    /\ handler' = IdleHandler

----------------------------------------------------------------------------
(* cleanup_expired_cache: the two list comprehensions *)

ExpiredKeys(cache, current_time) ==
    ListKeys(SelectSeq(cache,
        LAMBDA e : current_time - e.val.timestamp > CACHE_EXPIRY_SECONDS))

ExpiredProcessing_None(cache, current_time) == <<>>

ExpiredProcessing(cache, current_time) ==
    ListKeys(SelectSeq(cache,
        LAMBDA e : current_time - e.val > PROCESSING_TIMEOUT_SECONDS))

(* is_lead_already_processed_or_processing: the two membership tests *)

InProcessedCache(response_id) == DictHas(PROCESSED_LEADS_CACHE, response_id)

InProcessingCache_Never(response_id) == FALSE

InProcessingCache(response_id) == DictHas(PROCESSING_LEADS_CACHE, response_id)

(* `if cached_result:` is the truth value of a dict *)
Truthy_SuccessOnly(d) == d.success

Truthy(d) == DOMAIN d # {}

AlreadyProcessingResponse(response_id) ==
    WebhookResponse(TRUE, <<"Lead déjà en cours de traitement">>, Some(response_id), None)

AcceptedResponse(response_id) ==
    WebhookResponse(TRUE, <<"Lead", response_id, "accepté, traitement en cours">>,
                    Some(response_id), None)

IgnoredResponse(eventType) ==
    WebhookResponse(TRUE, <<"Événement ignoré", eventType>>, None, None)

(* background_tasks.add_task(process_lead_background, lead) *)
NewTask(lead) ==
    [lead |-> lead, pc |-> "queued", result |-> None, trace |-> <<>>]

AddTask_Dropped(ts, lead) == ts

AddTask(ts, lead) == Append(ts, NewTask(lead))

----------------------------------------------------------------------------
(* AgentOrchestrator.process_lead *)

ProcessingResult(success, lead_reference, devis_reference, pdf_path, draft_id, error, total_ttc, processing_time_ms, email_subject) ==
    [success |-> success, lead_reference |-> lead_reference,
     devis_reference |-> devis_reference, pdf_path |-> pdf_path, draft_id |-> draft_id,
     error |-> error, total_ttc |-> total_ttc,
     processing_time_ms |-> processing_time_ms, email_subject |-> email_subject]

Call(step, outcome) == [step |-> step, outcome |-> outcome]

(* what the collaborators do in one run: inputs of the pipeline *)
Envs ==
    [quote : {"returns", "raises"}, pdf : {"returns", "raises"},
     configured : BOOLEAN,
     draft : {"returns", "raises"}, total_ttc : TotalsTTC, elapsed_ms : ElapsedMs]

DevisReference(n) == "DEV-" \o ToString(n)
PdfPath(n) == "output/DEV-" \o ToString(n) \o ".pdf"
DraftId(n) == "draft-" \o ToString(n)
EmailSubject(n) == "subject-" \o ToString(n)
ErrorOf(step) == "error in " \o step

DraftStep_Unconditional(env, n, trace) ==
    IF env.draft = "returns"
    THEN [draft_id |-> Some(DraftId(n)),
          trace |-> trace \o <<Call("is_configured", IF env.configured THEN "true" ELSE "false"),
                               Call("create_draft", "returns")>>]
    ELSE [draft_id |-> None,
          trace |-> trace \o <<Call("is_configured", IF env.configured THEN "true" ELSE "false"),
                               Call("create_draft", "raises")>>]

(* Étape 4: is_configured, then create_draft inside its own try/except *)
DraftStep(env, n, trace) ==
    IF env.configured
    THEN IF env.draft = "returns"
         THEN [draft_id |-> Some(DraftId(n)),
               trace |-> trace \o <<Call("is_configured", "true"),
                                    Call("create_draft", "returns")>>]
         ELSE [draft_id |-> None,
               trace |-> trace \o <<Call("is_configured", "true"),
                                    Call("create_draft", "raises")>>]
    ELSE [draft_id |-> None, trace |-> trace \o <<Call("is_configured", "false")>>]

FailedRun_NoError(lead, step, env, trace) ==
    [result |-> ProcessingResult(FALSE, lead, None, None, None, None,
                                 None, env.elapsed_ms, None),
     trace |-> trace]

FailedRun_KeepsPdfPath(lead, step, env, trace) ==
    [result |-> ProcessingResult(FALSE, lead, None, Some(PdfPath(Len(trace))), None,
                                 Some(ErrorOf(step)), None, env.elapsed_ms, None),
     trace |-> trace]

(* the except clause of process_lead *)
FailedRun(lead, step, env, trace) ==
    [result |-> ProcessingResult(FALSE, lead, None, None, None, Some(ErrorOf(step)),
                                 None, env.elapsed_ms, None),
     trace |-> trace]

process_lead_DraftFatal(lead, env, n) ==
    LET t1 == <<Call("generate_with_context", env.quote)>>
        t2 == t1 \o <<Call("pdf_service.generate", env.pdf)>>
        t3 == t2 \o <<Call("email_generator.generate", "returns")>>
        d  == DraftStep(env, n, t3)
    IN  IF env.quote = "raises" THEN FailedRun(lead, "generate_with_context", env, t1)
        ELSE IF env.pdf = "raises" THEN FailedRun(lead, "pdf_service.generate", env, t2)
        ELSE IF env.configured /\ env.draft = "raises"
        THEN FailedRun(lead, "create_draft", env, d.trace)
        ELSE [result |-> ProcessingResult(TRUE, lead, Some(DevisReference(n)),
                                          Some(PdfPath(n)), d.draft_id, None,
                                          Some(env.total_ttc), env.elapsed_ms,
                                          Some(EmailSubject(n))),
              trace |-> d.trace]

process_lead_KeepsGoing(lead, env, n) ==
    LET t1 == <<Call("generate_with_context", env.quote)>>
        t2 == t1 \o <<Call("pdf_service.generate", env.pdf)>>
        t3 == t2 \o <<Call("email_generator.generate", "returns")>>
        d  == DraftStep(env, n, t3)
    IN  IF env.quote = "raises" THEN FailedRun(lead, "generate_with_context", env, t1)
        ELSE IF env.pdf = "raises" THEN FailedRun(lead, "pdf_service.generate", env, d.trace)
        ELSE [result |-> ProcessingResult(TRUE, lead, Some(DevisReference(n)),
                                          Some(PdfPath(n)), d.draft_id, None,
                                          Some(env.total_ttc), env.elapsed_ms,
                                          Some(EmailSubject(n))),
              trace |-> d.trace]

(* lines 65-129: the four steps in their order inside one try block; the  *)
(* email step returns in every case (EmailGenerator.generate catches what  *)
(* its own calls raise)                                                    *)
process_lead(lead, env, n) ==
    LET t1 == <<Call("generate_with_context", env.quote)>>
        t2 == t1 \o <<Call("pdf_service.generate", env.pdf)>>
        t3 == t2 \o <<Call("email_generator.generate", "returns")>>
        d  == DraftStep(env, n, t3)
    IN  IF env.quote = "raises" THEN FailedRun(lead, "generate_with_context", env, t1)
        ELSE IF env.pdf = "raises" THEN FailedRun(lead, "pdf_service.generate", env, t2)
        ELSE [result |-> ProcessingResult(TRUE, lead, Some(DevisReference(n)),
                                          Some(PdfPath(n)), d.draft_id, None,
                                          Some(env.total_ttc), env.elapsed_ms,
                                          Some(EmailSubject(n))),
              trace |-> d.trace]

(* process_lead_background: the dict committed for a result *)
ResponseData(lead, result) ==
    IF result.success
    THEN [success |-> TRUE,
          message |-> <<"Devis", result.devis_reference, "créé avec succès">>,
          lead_reference |-> lead,
          data |-> [devis_reference |-> result.devis_reference,
                    pdf_path |-> result.pdf_path,
                    draft_id |-> result.draft_id,
                    total_ttc |-> result.total_ttc,
                    processing_time_ms |-> result.processing_time_ms]]
    ELSE [success |-> FALSE,
          message |-> <<"Erreur", result.error>>,
          lead_reference |-> lead]

----------------------------------------------------------------------------
Init ==
    /\ now = 0
    /\ PROCESSED_LEADS_CACHE = <<>>
    /\ PROCESSING_LEADS_CACHE = <<>>
    /\ handler = IdleHandler
    /\ tasks = <<>>
    /\ deliveries = 0
    /\ responses = <<>>
    /\ gen = NoCall

----------------------------------------------------------------------------
(* webhook_tally, lines 337-362: read the body, parse the payload and the  *)
(* lead. Nothing shared is touched, so this is one step.                   *)

Receive ==
    \E body \in Bodies :
        /\ handler.pc = "idle"
        /\ deliveries < MaxDeliveries
        /\ deliveries' = deliveries + 1
        /\ LET h == [handler EXCEPT !.body = body] IN
           IF body.is_list /\ Len(body.items) = 0
           THEN \* raise HTTPException(400) inside the try block
                /\ responses' = Sent(body, ExceptClauses([class |-> "HTTPException",
                                                           detail |-> "Payload Tally vide"]))
                /\ handler' = IdleHandler
           ELSE LET payload == body.items[1] IN
                IF IsIgnoredEvent(payload)
                THEN /\ responses' = Sent(body, IgnoredResponse(payload.eventType))
                     /\ handler' = IdleHandler
                ELSE LET parsed == parse_tally_to_lead(payload) IN
                IF parsed.raises
                THEN /\ responses' = Sent(body, ExceptClauses(parsed.exc))
                     /\ handler' = IdleHandler
                ELSE /\ handler' = [h EXCEPT !.pc = "cleanup",
                                             !.lead = parsed.lead]
                     /\ UNCHANGED responses
        /\ UNCHANGED <<gen, now, PROCESSED_LEADS_CACHE, PROCESSING_LEADS_CACHE, tasks>>

(* cleanup_expired_cache, lines 40-46 *)
CleanupScanProcessed ==
    /\ handler.pc = "cleanup"
    /\ handler' = [handler EXCEPT
            !.pc = "del_processed",
            !.current_time = now,
            !.expired_keys = ExpiredKeys(PROCESSED_LEADS_CACHE, now)]
    /\ UNCHANGED <<gen, deliveries, now, PROCESSED_LEADS_CACHE, PROCESSING_LEADS_CACHE, tasks, responses>>

(* lines 47-48, one iteration; the loop's end leads to lines 51-54 *)
CleanupDelProcessed ==
    /\ handler.pc = "del_processed"
    /\ IF handler.expired_keys = <<>>
       THEN /\ handler' = [handler EXCEPT
                   !.pc = "del_processing",
                   !.expired_processing =
                       ExpiredProcessing(PROCESSING_LEADS_CACHE, handler.current_time)]
            /\ UNCHANGED <<PROCESSED_LEADS_CACHE, responses>>
       ELSE LET key == Head(handler.expired_keys) IN
            IF DictHas(PROCESSED_LEADS_CACHE, key)
            THEN /\ PROCESSED_LEADS_CACHE' = DictDel(PROCESSED_LEADS_CACHE, key)
                 /\ handler' = [handler EXCEPT !.expired_keys = Tail(@)]
                 /\ UNCHANGED responses
            ELSE /\ Respond(ExceptClauses([class |-> "KeyError", detail |-> key]))
                 /\ UNCHANGED PROCESSED_LEADS_CACHE
    /\ UNCHANGED <<gen, deliveries, now, PROCESSING_LEADS_CACHE, tasks>>

(* lines 55-57, one iteration; the loop's end returns to line 69 *)
CleanupDelProcessing ==
    /\ handler.pc = "del_processing"
    /\ IF handler.expired_processing = <<>>
       THEN /\ handler' = [handler EXCEPT !.pc = "check_processed"]
            /\ UNCHANGED <<PROCESSING_LEADS_CACHE, responses>>
       ELSE LET key == Head(handler.expired_processing) IN
            IF DictHas(PROCESSING_LEADS_CACHE, key)
            THEN /\ PROCESSING_LEADS_CACHE' = DictDel(PROCESSING_LEADS_CACHE, key)
                 /\ handler' = [handler EXCEPT !.expired_processing = Tail(@)]
                 /\ UNCHANGED responses
            ELSE /\ Respond(ExceptClauses([class |-> "KeyError", detail |-> key]))
                 /\ UNCHANGED PROCESSING_LEADS_CACHE
    /\ UNCHANGED <<gen, deliveries, now, PROCESSED_LEADS_CACHE, tasks>>

(* lines 70-73, then 368-372 *)
CheckProcessed ==
    /\ handler.pc = "check_processed"
    /\ LET response_id == handler.lead[1] IN
       IF InProcessedCache(response_id)
       THEN LET cached_result == DictGet(PROCESSED_LEADS_CACHE, response_id).result IN
            IF Truthy(cached_result)
            THEN Respond(WebhookResponseFromDict(cached_result))
            ELSE Respond(AlreadyProcessingResponse(response_id))
       ELSE /\ handler' = [handler EXCEPT !.pc = "check_processing"]
            /\ UNCHANGED responses
    /\ UNCHANGED <<gen, deliveries, now, PROCESSED_LEADS_CACHE, PROCESSING_LEADS_CACHE, tasks>>

(* lines 76-80, then 368 and 373-380 *)
CheckProcessing ==
    /\ handler.pc = "check_processing"
    /\ LET response_id == handler.lead[1] IN
       IF InProcessingCache(response_id)
       THEN Respond(AlreadyProcessingResponse(response_id))
       ELSE /\ handler' = [handler EXCEPT !.pc = "mark"]
            /\ UNCHANGED responses
    /\ UNCHANGED <<gen, deliveries, now, PROCESSED_LEADS_CACHE, PROCESSING_LEADS_CACHE, tasks>>

(* mark_lead_as_processing, lines 83-86 *)
mark_lead_as_processing_Skipped(cache, response_id, t) == cache

mark_lead_as_processing(cache, response_id, t) == DictSet(cache, response_id, t)

(* lines 384-399: mark_lead_as_processing, add_task, return *)
MarkAndAccept ==
    /\ handler.pc = "mark"
    /\ LET response_id == handler.lead[1] IN
       /\ PROCESSING_LEADS_CACHE' =
              mark_lead_as_processing(PROCESSING_LEADS_CACHE, response_id, now)
       /\ tasks' = AddTask(tasks, response_id)
       /\ Respond(AcceptedResponse(response_id))
    /\ UNCHANGED <<gen, deliveries, now, PROCESSED_LEADS_CACHE>>

----------------------------------------------------------------------------
(* process_lead_background, run in a worker thread once the response of    *)
(* its delivery has been sent                                              *)

SetTask(i, t) == tasks' = [tasks EXCEPT ![i] = t]

(* lines 292-293: get_orchestrator() builds the four services and may     *)
(* raise; otherwise process_lead runs and returns its result. The run      *)
(* touches neither cache.                                                  *)
TaskRun(i) ==
    /\ tasks[i].pc = "queued"
    /\ \/ SetTask(i, [tasks[i] EXCEPT !.pc = "except"])
       \/ \E env \in Envs :
            LET run == process_lead(tasks[i].lead, env, i)
            IN  SetTask(i, [tasks[i] EXCEPT !.pc = "mark_test",
                                            !.result = Some(run.result),
                                            !.trace = run.trace])
    /\ UNCHANGED <<gen, deliveries, now, PROCESSED_LEADS_CACHE, PROCESSING_LEADS_CACHE, handler, responses>>

(* mark_lead_as_processed, line 92 *)
TaskMarkTest(i) ==
    /\ tasks[i].pc = "mark_test"
    /\ IF DictHas(PROCESSING_LEADS_CACHE, tasks[i].lead)
       THEN SetTask(i, [tasks[i] EXCEPT !.pc = "mark_del"])
       ELSE SetTask(i, [tasks[i] EXCEPT !.pc = "mark_put"])
    /\ UNCHANGED <<gen, deliveries, now, PROCESSED_LEADS_CACHE, PROCESSING_LEADS_CACHE, handler, responses>>

(* line 93; a KeyError here is caught at line 321 *)
TaskMarkDel(i) ==
    /\ tasks[i].pc = "mark_del"
    /\ IF DictHas(PROCESSING_LEADS_CACHE, tasks[i].lead)
       THEN /\ PROCESSING_LEADS_CACHE' = DictDel(PROCESSING_LEADS_CACHE, tasks[i].lead)
            /\ SetTask(i, [tasks[i] EXCEPT !.pc = "mark_put"])
       ELSE /\ SetTask(i, [tasks[i] EXCEPT !.pc = "except"])
            /\ UNCHANGED PROCESSING_LEADS_CACHE
    /\ UNCHANGED <<gen, deliveries, now, PROCESSED_LEADS_CACHE, handler, responses>>

(* line 96 *)
TaskMarkPut(i) ==
    /\ tasks[i].pc = "mark_put"
    /\ PROCESSED_LEADS_CACHE' =
           DictSet(PROCESSED_LEADS_CACHE, tasks[i].lead,
                   [timestamp |-> now,
                    result |-> ResponseData(tasks[i].lead, tasks[i].result[1])])
    /\ SetTask(i, [tasks[i] EXCEPT !.pc = "done"])
    /\ UNCHANGED <<gen, deliveries, now, PROCESSING_LEADS_CACHE, handler, responses>>

(* line 324 *)
TaskExceptTest(i) ==
    /\ tasks[i].pc = "except"
    /\ IF DictHas(PROCESSING_LEADS_CACHE, tasks[i].lead)
       THEN SetTask(i, [tasks[i] EXCEPT !.pc = "except_del"])
       ELSE SetTask(i, [tasks[i] EXCEPT !.pc = "done"])
    /\ UNCHANGED <<gen, deliveries, now, PROCESSED_LEADS_CACHE, PROCESSING_LEADS_CACHE, handler, responses>>

TaskExceptDel_KeepsMarker(i) ==
    /\ tasks[i].pc = "except_del"
    /\ SetTask(i, [tasks[i] EXCEPT !.pc = "done"])
    /\ UNCHANGED <<gen, deliveries, now, PROCESSED_LEADS_CACHE, PROCESSING_LEADS_CACHE, handler, responses>>

(* line 325; a KeyError here leaves the task function *)
TaskExceptDel(i) ==
    /\ tasks[i].pc = "except_del"
    /\ IF DictHas(PROCESSING_LEADS_CACHE, tasks[i].lead)
       THEN /\ PROCESSING_LEADS_CACHE' = DictDel(PROCESSING_LEADS_CACHE, tasks[i].lead)
            /\ SetTask(i, [tasks[i] EXCEPT !.pc = "done"])
       ELSE /\ SetTask(i, [tasks[i] EXCEPT !.pc = "raised"])
            /\ UNCHANGED PROCESSING_LEADS_CACHE
    /\ UNCHANGED <<gen, deliveries, now, PROCESSED_LEADS_CACHE, handler, responses>>

Tick ==
    \E d \in ClockSteps :
        /\ now + d <= MaxTime
        /\ now' = now + d
        /\ UNCHANGED <<gen, deliveries, PROCESSED_LEADS_CACHE, PROCESSING_LEADS_CACHE, handler, tasks, responses>>

Next ==
    \/ Tick
    \/ Receive
    \/ CleanupScanProcessed
    \/ CleanupDelProcessed
    \/ CleanupDelProcessing
    \/ CheckProcessed
    \/ CheckProcessing
    \/ MarkAndAccept
    \/ \E i \in DOMAIN tasks : TaskRun(i)
    \/ \E i \in DOMAIN tasks : TaskMarkTest(i)
    \/ \E i \in DOMAIN tasks : TaskMarkDel(i)
    \/ \E i \in DOMAIN tasks : TaskMarkPut(i)
    \/ \E i \in DOMAIN tasks : TaskExceptTest(i)
    \/ \E i \in DOMAIN tasks : TaskExceptDel(i)

Spec == Init /\ [][Next]_vars

(* The event loop runs a handler that has received its request up to its   *)
(* response, and process_lead_background runs in a thread of Starlette's   *)
(* pool: once queued, a task is started and each of its statements is      *)
(* executed in turn. The calls of the pipeline are taken to return or to   *)
(* raise. Nothing obliges a further request to arrive.                     *)
SpecLive ==
    /\ Spec
    /\ WF_vars(\/ CleanupScanProcessed
               \/ CleanupDelProcessed
               \/ CleanupDelProcessing
               \/ CheckProcessed
               \/ CheckProcessing
               \/ MarkAndAccept)
    /\ \A i \in 1..MaxDeliveries :
          WF_vars(/\ i \in DOMAIN tasks
                  /\ \/ TaskRun(i)
                     \/ TaskMarkTest(i)
                     \/ TaskMarkDel(i)
                     \/ TaskMarkPut(i)
                     \/ TaskExceptTest(i)
                     \/ TaskExceptDel(i))

----------------------------------------------------------------------------
(* The quote generator (agent/devis_generator.py, agent/devis_schemas.py,  *)
(* models.py). Text is a sequence of one-character strings, so that        *)
(* substring tests and character filters are computed; a float is the      *)
(* exact decimal m / 10^e, kept with no trailing zero.                     *)

MaxHintLen == 3

MaxPriceLen == 3

Contains(text, sub) ==
    \E i \in 1..(Len(text) - Len(sub) + 1) : SubSeq(text, i, i + Len(sub) - 1) = sub

UpperCase == <<"A", "B", "C", "D", "E", "F", "G", "H", "I", "J", "K", "L", "M",
               "N", "O", "P", "Q", "R", "S", "T", "U", "V", "W", "X", "Y", "Z", "À">>

LowerCase == <<"a", "b", "c", "d", "e", "f", "g", "h", "i", "j", "k", "l", "m",
               "n", "o", "p", "q", "r", "s", "t", "u", "v", "w", "x", "y", "z", "à">>

(* str.lower() *)
Lower(text) ==
    [i \in DOMAIN text |->
        IF \E k \in DOMAIN UpperCase : UpperCase[k] = text[i]
        THEN LowerCase[CHOOSE k \in DOMAIN UpperCase : UpperCase[k] = text[i]]
        ELSE text[i]]

Digits == <<"0", "1", "2", "3", "4", "5", "6", "7", "8", "9">>

IsDigit(c) == \E k \in DOMAIN Digits : Digits[k] = c

DigitValue(c) == (CHOOSE k \in DOMAIN Digits : Digits[k] = c) - 1

RECURSIVE Pow10(_)
Pow10(k) == IF k = 0 THEN 1 ELSE 10 * Pow10(k - 1)

RECURSIVE Norm(_)
Norm(d) ==
    IF d.e > 0 /\ d.m % 10 = 0 THEN Norm([m |-> d.m \div 10, e |-> d.e - 1]) ELSE d

Dec(m, e) == Norm([m |-> m, e |-> e])

DecAdd(a, b) ==
    LET e == IF a.e >= b.e THEN a.e ELSE b.e
    IN  Dec(a.m * Pow10(e - a.e) + b.m * Pow10(e - b.e), e)

DecMul(a, b) == Dec(a.m * b.m, a.e + b.e)

(* _estimate_price_from_budget, lines 187-207 *)
estimate_price_from_budget_NoOrder(budget_range) ==
    IF budget_range = None \/ budget_range = Some(<<>>) THEN Dec(1500, 0)
    ELSE LET budget_lower == Lower(budget_range[1]) IN
         IF Contains(budget_lower, <<"1", "0">>) \/ Contains(budget_lower, <<"+">>)
            \/ Contains(budget_lower, <<">">>)
         THEN Dec(12000, 0)
         ELSE IF Contains(budget_lower, <<"<", " ", "1">>)
            \/ Contains(budget_lower, <<"<", "1">>)
            \/ Contains(budget_lower, <<"m", "o", "i", "n", "s", " ", "d", "e", " ", "1">>)
         THEN Dec(800, 0)
         ELSE IF Contains(budget_lower, <<"1">>) /\ Contains(budget_lower, <<"3">>)
         THEN Dec(2000, 0)
         ELSE IF Contains(budget_lower, <<"3">>) /\ Contains(budget_lower, <<"5">>)
         THEN Dec(4000, 0)
         ELSE IF Contains(budget_lower, <<"5">>) /\ Contains(budget_lower, <<"1", "0">>)
         THEN Dec(7500, 0)
         ELSE Dec(1500, 0)

estimate_price_from_budget(budget_range) ==
    IF budget_range = None \/ budget_range = Some(<<>>) THEN Dec(1500, 0)
    ELSE LET budget_lower == Lower(budget_range[1]) IN
         IF Contains(budget_lower, <<"<", " ", "1">>)
            \/ Contains(budget_lower, <<"<", "1">>)
            \/ Contains(budget_lower, <<"m", "o", "i", "n", "s", " ", "d", "e", " ", "1">>)
         THEN Dec(800, 0)
         ELSE IF Contains(budget_lower, <<"1">>) /\ Contains(budget_lower, <<"3">>)
         THEN Dec(2000, 0)
         ELSE IF Contains(budget_lower, <<"3">>) /\ Contains(budget_lower, <<"5">>)
         THEN Dec(4000, 0)
         ELSE IF Contains(budget_lower, <<"5">>) /\ Contains(budget_lower, <<"1", "0">>)
         THEN Dec(7500, 0)
         ELSE IF Contains(budget_lower, <<"1", "0">>) \/ Contains(budget_lower, <<"+">>)
            \/ Contains(budget_lower, <<">">>)
         THEN Dec(12000, 0)
         ELSE Dec(1500, 0)

(* Budget hints: every text over HintAlphabet up to MaxHintLen characters, *)
(* the hints of the tests, and two spelled-out ones.                       *)
HintAlphabet == {"<", " ", "1", "3", "5", "0", "+", ">"}

RECURSIVE TextsUpTo(_, _)
TextsUpTo(alphabet, n) ==
    IF n = 0 THEN {<<>>}
    ELSE LET shorter == TextsUpTo(alphabet, n - 1)
         IN  shorter \cup {Append(t, c) : t \in shorter, c \in alphabet}

NamedHints ==
    {<<"<", " ", "1", " ", "0", "0", "0", "€">>,
     <<"<", "1", "0", "0", "0", "€">>,
     <<"1", "-", "3", "k", "€">>,
     <<"1", " ", "0", "0", "0", " ", "-", " ", "3", " ", "0", "0", "0", "€">>,
     <<"3", "-", "5", "k", "€">>,
     <<"5", "-", "1", "0", "k", "€">>,
     <<"1", "0", "k", "€", "+">>,
     <<">", " ", "1", "0", " ", "0", "0", "0", "€">>,
     <<"À", " ", "d", "é", "f", "i", "n", "i", "r">>,
     <<"M", "o", "i", "n", "s", " ", "d", "e", " ", "1", " ", "0", "0", "0", "€">>,
     <<"m", "o", "i", "n", "s", " ", "d", "e", " ", "1", "0", "0", "0", "€">>,
     <<"3", " ", "à", " ", "5", "k">>}

BudgetHints ==
    {None} \cup {Some(t) : t \in TextsUpTo(HintAlphabet, MaxHintLen) \cup NamedHints}

----------------------------------------------------------------------------
(* JSON values as json.loads returns them. A scalar is [t, n, s]: its      *)
(* Python type, its number when it is one, its characters when it is text. *)

JAbsent == [t |-> "absent", n |-> Dec(0, 0), s |-> <<>>]

JNull == [t |-> "null", n |-> Dec(0, 0), s |-> <<>>]

JInt(k) == [t |-> "int", n |-> Dec(k, 0), s |-> <<>>]

JFloat(d) == [t |-> "float", n |-> d, s |-> <<>>]

JStr(text) == [t |-> "str", n |-> Dec(0, 0), s |-> text]

(* a JSON array where a number is expected, such as [1500] *)
JList == [t |-> "list", n |-> Dec(0, 0), s |-> <<>>]

Returns(value) == [exc |-> "", value |-> value]

Raises(exc, value) == [exc |-> exc, value |-> value]

(* str.replace(',', '.') *)
CommasToDots(text) == [i \in DOMAIN text |-> IF text[i] = "," THEN "." ELSE text[i]]

RECURSIVE IntOfDigits(_)
IntOfDigits(digits) ==
    IF digits = <<>> THEN 0
    ELSE 10 * IntOfDigits(SubSeq(digits, 1, Len(digits) - 1))
         + DigitValue(digits[Len(digits)])

(* float(cleaned): ValueError unless the text is made of digits and at     *)
(* most one dot, with at least one digit                                   *)
FloatOfText(cleaned) ==
    LET dots == SelectSeq(cleaned, LAMBDA c : c = ".")
        digits == SelectSeq(cleaned, IsDigit)
    IN  IF Len(dots) > 1 \/ digits = <<>> \/ Len(dots) + Len(digits) < Len(cleaned)
        THEN Raises("ValueError", Dec(0, 0))
        ELSE IF dots = <<>>
        THEN Returns(Dec(IntOfDigits(digits), 0))
        ELSE LET dot == CHOOSE i \in DOMAIN cleaned : cleaned[i] = "."
             IN  Returns(Dec(IntOfDigits(digits), Len(cleaned) - dot))

(* int(x) of a float truncates toward zero *)
IntOfFloat(d) ==
    IF d.m >= 0 THEN d.m \div Pow10(d.e) ELSE -((-d.m) \div Pow10(d.e))

(* LLMDevisLine.coerce_prix_to_float, lines 21-30 *)
coerce_prix_to_float_DigitsOnly(v) ==
    IF v.t = "str"
    THEN LET cleaned == SelectSeq(v.s, IsDigit)
         IN  IF cleaned # <<>> THEN FloatOfText(cleaned) ELSE Returns(Dec(0, 0))
    ELSE IF v.t = "list" THEN Raises("TypeError", Dec(0, 0))
    ELSE Returns(v.n)

coerce_prix_to_float(v) ==
    IF v.t = "str"
    THEN LET cleaned == CommasToDots(SelectSeq(v.s, LAMBDA c : IsDigit(c) \/ c \in {".", ","}))
         IN  IF cleaned # <<>> THEN FloatOfText(cleaned) ELSE Returns(Dec(0, 0))
    ELSE IF v.t = "list" THEN Raises("TypeError", Dec(0, 0))
    ELSE Returns(v.n)

(* LLMDevisLine.coerce_quantite_to_int, lines 32-39 *)
coerce_quantite_to_int(v) ==
    IF v.t = "str"
    THEN LET cleaned == SelectSeq(v.s, IsDigit)
         IN  IF cleaned # <<>> THEN Returns(IntOfDigits(cleaned)) ELSE Returns(1)
    ELSE IF v.t = "list" THEN Raises("TypeError", 0)
    ELSE IF v.t = "null" THEN Returns(1)
    ELSE Returns(IntOfFloat(v.n))

(* A validated line, as model_dump gives it *)
DumpedLine(description, details, quantite, prix_unitaire) ==
    [description |-> description, details |-> details,
     quantite |-> quantite, prix_unitaire |-> prix_unitaire]

NoLine == DumpedLine("", None, 0, Dec(0, 0))

(* LLMDevisLine, lines 16-39: a 'before' validator runs only on a field    *)
(* that is present; an exception of a validator that is neither ValueError *)
(* nor AssertionError leaves model_validate as it is, every other failure  *)
(* is collected into one ValidationError.                                  *)
ValidateLine(line) ==
    LET quantite == IF line.quantite.t = "absent" THEN Returns(1)
                    ELSE coerce_quantite_to_int(line.quantite)
        prix == IF line.prix_unitaire.t = "absent" THEN Raises("missing", Dec(0, 0))
                ELSE coerce_prix_to_float(line.prix_unitaire)
    IN  IF quantite.exc = "TypeError" \/ prix.exc = "TypeError"
        THEN Raises("TypeError", NoLine)
        ELSE IF \/ line.description = None \/ line.description = Some("")
                \/ quantite.exc # "" \/ quantite.value < 1
                \/ prix.exc # "" \/ prix.value.m < 0
        THEN Raises("ValidationError", NoLine)
        ELSE Returns(DumpedLine(line.description[1], line.details,
                                quantite.value, prix.value))

DEFAULT_CONDITIONS ==
    "Devis valable 30 jours. Paiement 50% à la commande, 50% à la livraison."

DumpedPayload(titre, introduction, lignes_devis, conditions, message_personnel) ==
    [titre |-> titre, introduction |-> introduction, lignes_devis |-> lignes_devis,
     conditions |-> conditions, message_personnel |-> message_personnel]

NoPayload == DumpedPayload("", "", <<>>, "", None)

(* LLMDevisPayload.ensure_list, lines 56-64 *)
ensure_list(v) == IF v.t = "null" THEN <<>> ELSE v.lines

(* LLMDevisPayload.model_validate, lines 47-64 *)
ValidatePayload(data) ==
    IF ~data.is_object THEN Raises("ValidationError", NoPayload)
    ELSE
    LET lines == IF data.lignes_devis.t = "absent" THEN <<>>
                 ELSE ensure_list(data.lignes_devis)
        validated == [i \in DOMAIN lines |-> ValidateLine(lines[i])]
    IN  IF \E i \in DOMAIN validated : validated[i].exc = "TypeError"
        THEN Raises("TypeError", NoPayload)
        ELSE IF \/ data.titre = None \/ data.titre = Some("")
                \/ data.introduction = None \/ data.introduction = Some("")
                \/ lines = <<>>
                \/ \E i \in DOMAIN validated : validated[i].exc # ""
        THEN Raises("ValidationError", NoPayload)
        ELSE Returns(DumpedPayload(
                data.titre[1], data.introduction[1],
                [i \in DOMAIN validated |-> validated[i].value],
                IF data.conditions = None THEN DEFAULT_CONDITIONS ELSE data.conditions[1],
                data.message_personnel))

----------------------------------------------------------------------------
(* The model's response text, as the segments the parser tells apart:      *)
(* whitespace, a markdown fence, brace-free prose, a brace block that      *)
(* json.loads decodes to `doc`, a brace block it rejects, and a JSON       *)
(* document that is not an object. `len` is the segment's length in        *)
(* characters. Brace blocks nest at most one level of braces, which is     *)
(* what JSON_OBJECT_PATTERN matches whole.                                 *)

Line(description, quantite, prix_unitaire) ==
    [description |-> description, details |-> None,
     quantite |-> quantite, prix_unitaire |-> prix_unitaire]

Lines(t, lines) == [t |-> t, lines |-> lines]

Doc(titre, introduction, lignes_devis) ==
    [is_object |-> TRUE, titre |-> titre, introduction |-> introduction,
     lignes_devis |-> lignes_devis, conditions |-> None, message_personnel |-> None]

NoDoc == [Doc(None, None, Lines("absent", <<>>)) EXCEPT !.is_object = FALSE]

Seg(kind, doc, len) == [kind |-> kind, doc |-> doc, len |-> len]

Ws == Seg("ws", NoDoc, 1)

FenceJson == Seg("fence_json", NoDoc, 7)

Fence == Seg("fence", NoDoc, 3)

Prose == Seg("prose", NoDoc, 38)

RECURSIVE Strip(_)
Strip(text) ==
    IF text # <<>> /\ text[1].kind = "ws" THEN Strip(Tail(text))
    ELSE IF text # <<>> /\ text[Len(text)].kind = "ws"
    THEN Strip(SubSeq(text, 1, Len(text) - 1))
    ELSE text

(* _parse_response, lines 130-137 *)
StripFences(response) ==
    LET stripped == Strip(response)
        opened == IF stripped # <<>> /\ stripped[1].kind \in {"fence_json", "fence"}
                  THEN Tail(stripped) ELSE stripped
        closed == IF opened # <<>> /\ opened[Len(opened)].kind = "fence"
                  THEN SubSeq(opened, 1, Len(opened) - 1) ELSE opened
    IN  Strip(closed)

(* json.loads *)
json_loads(text) ==
    IF Len(text) = 1 /\ text[1].kind \in {"object", "scalar"}
    THEN Returns(text[1].doc)
    ELSE Raises("JSONDecodeError", NoDoc)

(* extract_json_from_text, lines 72-92: the first of the longest matches *)
extract_json_from_text(text) ==
    LET matches == SelectSeq(text, LAMBDA seg : seg.kind \in {"object", "broken"})
    IN  IF matches = <<>> THEN None
        ELSE Some(matches[CHOOSE i \in DOMAIN matches :
                            /\ \A j \in DOMAIN matches : matches[j].len <= matches[i].len
                            /\ \A j \in 1..(i - 1) : matches[j].len < matches[i].len])

(* json.loads followed by LLMDevisPayload.model_validate, lines 141-142 and 155-156 *)
DecodeAndValidate(text) ==
    LET decoded == json_loads(text)
    IN  IF decoded.exc # "" THEN Raises(decoded.exc, NoPayload)
        ELSE ValidatePayload(decoded.value)

----------------------------------------------------------------------------
(* Leads *)

ServiceTypes == {"mass_mailing", "automation_ia", "seo_growth"}

(* lead.service_type.value.replace("_", " ").title() *)
ServiceName_Generic(service_type) == "Prestation"

ServiceName(service_type) ==
    CASE service_type = "mass_mailing" -> "Mass Mailing"
      [] service_type = "automation_ia" -> "Automation Ia"
      [] service_type = "seo_growth" -> "Seo Growth"

Lead(first_name, last_name, company, service_type, budget_range) ==
    [first_name |-> first_name, last_name |-> last_name, company |-> company,
     service_type |-> service_type, budget_range |-> budget_range]

full_name(lead) == lead.first_name \o " " \o lead.last_name

Contacts ==
    {<<"Jimmy", "Gay", None>>, <<"Jimmy", "Gay", Some("nana-intelligence")>>,
     <<"Alice", "Martin", Some("TechCorp")>>, <<"Bob", "Dupont", Some("")>>}

LeadBudgets ==
    {None,
     Some(<<"<", " ", "1", " ", "0", "0", "0", "€">>),
     Some(<<"3", "-", "5", "k", "€">>),
     Some(<<"3", " ", "à", " ", "5", "k">>),
     Some(<<"5", "-", "1", "0", "k", "€">>),
     Some(<<"À", " ", "d", "é", "f", "i", "n", "i", "r">>)}

Leads ==
    {Lead(c[1], c[2], c[3], s, b) : c \in Contacts, s \in ServiceTypes, b \in LeadBudgets}

(* _parse_response, lines 171-185 *)
FallbackPayload_FixedTemplate(lead) ==
    DumpedPayload(
        "Devis",
        "Cher(e) client, voici notre proposition personnalisée.",
        <<DumpedLine("Prestation", Some("Selon votre besoin"), 1, Dec(1500, 0))>>,
        DEFAULT_CONDITIONS,
        Some("N'hésitez pas à me contacter pour affiner cette proposition."))

FallbackPayload(lead) ==
    LET service_name == ServiceName(lead.service_type) IN
    DumpedPayload(
        "Devis " \o service_name \o " - " \o
            (IF lead.company # None /\ lead.company # Some("")
             THEN lead.company[1] ELSE full_name(lead)),
        "Cher(e) " \o lead.first_name \o
            ", suite à votre demande, voici notre proposition personnalisée.",
        <<DumpedLine("Prestation " \o service_name, Some("Selon votre besoin"), 1,
                     estimate_price_from_budget(lead.budget_range))>>,
        DEFAULT_CONDITIONS,
        Some("N'hésitez pas à me contacter pour affiner cette proposition, "
             \o lead.first_name \o "."))

Tried(tier, outcome) == [tier |-> tier, outcome |-> outcome]

Parsed(exc, data, tiers) == [exc |-> exc, data |-> data, tiers |-> tiers]

ValidationFailures == {"JSONDecodeError", "ValidationError"}

parse_response_NoExtraction(response, lead) ==
    LET direct == DecodeAndValidate(StripFences(response))
    IN  IF direct.exc = ""
        THEN Parsed("", direct.value, <<Tried("direct", "")>>)
        ELSE IF direct.exc \notin ValidationFailures
        THEN Parsed(direct.exc, NoPayload, <<Tried("direct", direct.exc)>>)
        ELSE Parsed("", FallbackPayload(lead),
                    <<Tried("direct", direct.exc), Tried("fallback", "")>>)

(* DevisGenerator._parse_response, lines 113-185: each tier's try block    *)
(* catches json.JSONDecodeError and ValidationError only.                  *)
parse_response(response, lead) ==
    LET direct == DecodeAndValidate(StripFences(response))
        extracted == extract_json_from_text(response)
        extraction == DecodeAndValidate(extracted)
    IN  IF direct.exc = ""
        THEN Parsed("", direct.value, <<Tried("direct", "")>>)
        ELSE IF direct.exc \notin ValidationFailures
        THEN Parsed(direct.exc, NoPayload, <<Tried("direct", direct.exc)>>)
        ELSE IF extracted = None
        THEN Parsed("", FallbackPayload(lead),
                    <<Tried("direct", direct.exc), Tried("fallback", "")>>)
        ELSE IF extraction.exc = ""
        THEN Parsed("", extraction.value,
                    <<Tried("direct", direct.exc), Tried("extraction", "")>>)
        ELSE IF extraction.exc \notin ValidationFailures
        THEN Parsed(extraction.exc, NoPayload,
                    <<Tried("direct", direct.exc), Tried("extraction", extraction.exc)>>)
        ELSE Parsed("", FallbackPayload(lead),
                    <<Tried("direct", direct.exc), Tried("extraction", extraction.exc),
                      Tried("fallback", "")>>)

----------------------------------------------------------------------------
(* models.py, lines 47-89: a quote keeps its items; the amounts are        *)
(* properties computed from the items at each access.                      *)

DevisItem(description, quantity, unit_price) ==
    [description |-> description, quantity |-> quantity, unit_price |-> unit_price]

(* DevisItem.total, lines 53-55 *)
total(item) == DecMul(Dec(item.quantity, 0), item.unit_price)

RECURSIVE SumOfTotals(_)
SumOfTotals(items) ==
    IF items = <<>> THEN Dec(0, 0)
    ELSE DecAdd(SumOfTotals(SubSeq(items, 1, Len(items) - 1)), total(items[Len(items)]))

(* DevisContent.subtotal, lines 79-81 *)
subtotal(devis) == SumOfTotals(devis.items)

(* DevisContent.tva, lines 83-85 *)
tva_Rate10(devis) == DecMul(subtotal(devis), Dec(10, 2))

tva(devis) == DecMul(subtotal(devis), Dec(20, 2))

(* DevisContent.total_ttc, lines 87-89 *)
total_ttc(devis) == DecAdd(subtotal(devis), tva(devis))

(* DevisGenerator._build_devis_content, lines 209-241; the reference, made *)
(* of the date and a random id, is left out.                               *)
build_devis_content(lead, data) ==
    [client_name |-> full_name(lead),
     client_company |-> lead.company,
     title |-> data.titre,
     introduction |-> IF data.message_personnel # None /\ data.message_personnel # Some("")
                      THEN data.introduction \o "\n\n" \o data.message_personnel[1]
                      ELSE data.introduction,
     items |-> [i \in DOMAIN data.lignes_devis |->
                   DevisItem(data.lignes_devis[i].description,
                             data.lignes_devis[i].quantite,
                             data.lignes_devis[i].prix_unitaire)],
     conditions |-> data.conditions]

----------------------------------------------------------------------------
(* Inputs of the quote generator *)

PriceAlphabet == {"1", "5", "0", " ", ",", ".", "€"}

Text_1500_EUR == <<"1", " ", "5", "0", "0", "€">>

PriceValues ==
    {JStr(t) : t \in TextsUpTo(PriceAlphabet, MaxPriceLen)
                     \cup {Text_1500_EUR, <<"1", "5", "0", "0", "€">>,
                           <<"1", ".", "5", "0", "0", ",", "0", "0">>,
                           <<"e", "n", "v", "i", "r", "o", "n", " ", "2", "k">>}}
    \cup {JAbsent, JNull, JList, JInt(100), JInt(-5), JFloat(Dec(80000, 2)),
          JFloat(Dec(3333, 2)), JFloat(Dec(1, 2))}

QuantityValues ==
    {JStr(<<"5">>), JStr(<<"2", " ", "x">>), JStr(<<"d", "e", "u", "x">>), JStr(<<"0">>),
     JAbsent, JNull, JList, JInt(3), JInt(0), JFloat(Dec(27, 1))}

RawLines == {Line(Some("Audit SEO complet"), q, p) : q \in QuantityValues, p \in PriceValues}

(* Line lists of the responses: each entry alone, and pairs of the valid ones *)
ValidLines ==
    {Line(Some("Audit SEO complet"), JInt(1), JFloat(Dec(80000, 2))),
     Line(Some("Optimisation on-page"), JInt(2), JFloat(Dec(3333, 2))),
     Line(Some("Campagne emailing"), JStr(<<"5">>), JStr(Text_1500_EUR)),
     Line(Some("Suivi mensuel"), JAbsent, JFloat(Dec(1, 2)))}

InvalidLines ==
    {Line(Some("Audit SEO complet"), JInt(1), JList),
     Line(Some("Audit SEO complet"), JList, JInt(100)),
     Line(Some("Audit SEO complet"), JInt(1), JAbsent),
     Line(Some("Audit SEO complet"), JInt(0), JInt(100)),
     Line(Some(""), JInt(1), JInt(100))}

LineLists ==
    {<<l>> : l \in ValidLines \cup InvalidLines}
    \cup {<<l1, l2>> : l1, l2 \in ValidLines}
    \cup {<<l1, l2>> : l1 \in InvalidLines, l2 \in {Line(Some("Audit SEO complet"), JInt(1), JList)}}

TITRE == "Devis SEO & Growth Hacking"

INTRODUCTION == "Cher(e) Alice, suite à notre échange, voici notre proposition personnalisée."

Docs ==
    {Doc(t, Some(INTRODUCTION), Lines("list", ll)) : t \in {Some(TITRE), None}, ll \in LineLists}
    \cup {Doc(Some(TITRE), Some(INTRODUCTION), Lines(t, <<>>)) : t \in {"absent", "null", "list"}}
    \cup {Doc(Some(TITRE), Some(INTRODUCTION), Lines("object", <<l>>)) : l \in ValidLines}
    \cup {Doc(Some(TITRE), Some(""), Lines("list", <<l>>)) : l \in ValidLines}

Object(doc) == Seg("object", doc, 200 + 60 * Len(doc.lignes_devis.lines))

Broken == Seg("broken", NoDoc, 120)

Scalar == Seg("scalar", NoDoc, 4)

GoodDoc ==
    Doc(Some(TITRE), Some(INTRODUCTION),
        Lines("list", <<Line(Some("Audit SEO complet"), JInt(1), JFloat(Dec(80000, 2)))>>))

Responses ==
    {<<Object(d)>> : d \in Docs}
    \cup {<<FenceJson, Ws, Object(d), Ws, Fence>> : d \in Docs}
    \cup {<<Ws, Prose, Ws, Object(d), Ws, Prose>> : d \in Docs}
    \cup {<<>>, <<Prose>>, <<Broken>>, <<Scalar>>, <<Fence, Ws, Prose, Ws, Fence>>,
          <<Prose, Broken, Ws, Object(GoodDoc)>>,
          <<Object(GoodDoc), Ws, Broken>>,
          <<Object(GoodDoc), Prose, Object(GoodDoc)>>,
          <<FenceJson, Ws, Object(GoodDoc)>>,
          <<Object(GoodDoc), Ws, FenceJson>>}

----------------------------------------------------------------------------
(* The quote generator taken alone: one call of _estimate_price_from_budget *)
(* on a hint, one validation of a line, or one run of steps 4 and 5 of     *)
(* generate (lines 77-90) on a lead and a response of the model.           *)

InitDevis ==
    /\ now = 0
    /\ PROCESSED_LEADS_CACHE = <<>>
    /\ PROCESSING_LEADS_CACHE = <<>>
    /\ handler = IdleHandler
    /\ tasks = <<>>
    /\ deliveries = 0
    /\ responses = <<>>
    /\ gen \in {[pc |-> "estimate", budget_range |-> h] : h \in BudgetHints}
          \cup {[pc |-> "validate", line |-> l] : l \in RawLines}
          \cup {[pc |-> "parse", lead |-> l, response |-> r] : l \in Leads, r \in Responses}

EstimatePrice ==
    /\ gen.pc = "estimate"
    /\ gen' = [pc |-> "estimated", budget_range |-> gen.budget_range,
               price |-> estimate_price_from_budget(gen.budget_range)]
    /\ UNCHANGED <<now, PROCESSED_LEADS_CACHE, PROCESSING_LEADS_CACHE, handler, tasks,
                   deliveries, responses>>

ModelValidateLine ==
    /\ gen.pc = "validate"
    /\ gen' = [pc |-> "validated", line |-> gen.line, validated |-> ValidateLine(gen.line)]
    /\ UNCHANGED <<now, PROCESSED_LEADS_CACHE, PROCESSING_LEADS_CACHE, handler, tasks,
                   deliveries, responses>>

(* generate, line 77 *)
ParseResponse ==
    /\ gen.pc = "parse"
    /\ LET parsed == parse_response(gen.response, gen.lead) IN
       gen' = [pc |-> IF parsed.exc = "" THEN "parsed" ELSE "raised",
               lead |-> gen.lead, response |-> gen.response, devis_data |-> parsed]
    /\ UNCHANGED <<now, PROCESSED_LEADS_CACHE, PROCESSING_LEADS_CACHE, handler, tasks,
                   deliveries, responses>>

(* generate, lines 86-90: the quote is built and its total is read *)
BuildDevisContent ==
    /\ gen.pc = "parsed"
    /\ LET devis == build_devis_content(gen.lead, gen.devis_data.data) IN
       gen' = [pc |-> "built", lead |-> gen.lead, response |-> gen.response,
               devis_data |-> gen.devis_data, devis |-> devis,
               total_ttc |-> total_ttc(devis)]
    /\ UNCHANGED <<now, PROCESSED_LEADS_CACHE, PROCESSING_LEADS_CACHE, handler, tasks,
                   deliveries, responses>>

NextDevis ==
    \/ EstimatePrice
    \/ ModelValidateLine
    \/ ParseResponse
    \/ BuildDevisContent

SpecDevis == InitDevis /\ [][NextDevis]_vars

----------------------------------------------------------------------------
(* The email drafter (agent/email_generator.py). A text is a sequence of   *)
(* lines, the pieces "\n" separates, and a line is a sequence of           *)
(* one-character strings: the empty text is one empty line. The fixed      *)
(* sentences of the templates are kept as whole pieces.                    *)

MaxEmailLines == 3

Whitespace == {" "}

EmptyText == << <<>> >>

(* str.upper() *)
Upper(text) ==
    [i \in DOMAIN text |->
        IF \E k \in DOMAIN LowerCase : LowerCase[k] = text[i]
        THEN UpperCase[CHOOSE k \in DOMAIN LowerCase : LowerCase[k] = text[i]]
        ELSE text[i]]

(* str.startswith(prefix) *)
StartsWith(text, prefix) ==
    Len(text) >= Len(prefix) /\ SubSeq(text, 1, Len(prefix)) = prefix

RECURSIVE Replace(_, _)
(* str.replace(old, ""): every occurrence, scanned from the left *)
Replace(text, old) ==
    IF text = <<>> THEN <<>>
    ELSE IF StartsWith(text, old)
    THEN Replace(SubSeq(text, Len(old) + 1, Len(text)), old)
    ELSE <<Head(text)>> \o Replace(Tail(text), old)

(* str.strip(chars) of one line: from its first to its last character     *)
(* outside chars                                                           *)
StripChars(text, chars) ==
    LET kept == {i \in DOMAIN text : text[i] \notin chars}
    IN  IF kept = {} THEN <<>>
        ELSE SubSeq(text, CHOOSE i \in kept : \A j \in kept : i <= j,
                          CHOOSE i \in kept : \A j \in kept : i >= j)

(* str.strip() of one line *)
StripLine(line) == StripChars(line, Whitespace)

(* str.strip() of a text of several lines; "\n" is whitespace too: the     *)
(* text from the first to the last non-blank character                     *)
StripText(lines) ==
    LET filled == {i \in DOMAIN lines : StripLine(lines[i]) # <<>>}
    IN  IF filled = {} THEN EmptyText
        ELSE LET first == CHOOSE i \in filled : \A j \in filled : i <= j
                 last == CHOOSE i \in filled : \A j \in filled : i >= j
                 fromFirst == SubSeq(lines[first],
                                     Len(lines[first]) - Len(StripLine(lines[first] \o <<"x">>)) + 2,
                                     Len(lines[first]))
                 toLast == SubSeq(lines[last], 1, Len(StripLine(<<"x">> \o lines[last])) - 1)
             IN  IF first = last THEN <<StripLine(lines[first])>>
                 ELSE <<fromFirst>> \o SubSeq(lines, first + 1, last - 1) \o <<toLast>>

GeneratedEmail(subject, body_html, body_text) ==
    [subject |-> subject, body_html |-> body_html, body_text |-> body_text]

RECURSIVE Paragraphs(_, _)
(* _convert_to_html, lines 196-205: text.split("\n\n"), each part stripped, *)
(* the empty ones skipped                                                  *)
Paragraphs(lines, current) ==
    LET flushed == IF StripText(current) = EmptyText THEN <<>> ELSE <<StripText(current)>>
    IN  IF lines = <<>> THEN flushed
        ELSE IF Head(lines) = <<>> THEN flushed \o Paragraphs(Tail(lines), <<>>)
        ELSE Paragraphs(Tail(lines), Append(current, Head(lines)))

(* _convert_to_html, lines 192-290: the paragraphs in the fixed template,  *)
(* with the quote's reference and total                                    *)
convert_to_html(text, devis) ==
    [paragraphs |-> Paragraphs(text, <<>>), reference |-> devis.reference,
     total_ttc |-> devis.total_ttc]

SUJET == <<"S", "U", "J", "E", "T", ":">>

sujet == <<"s", "u", "j", "e", "t", ":">>

DELIMITER == <<"-", "-", "-">>

(* line 161 *)
DefaultSubject(devis) == <<"Votre devis ", devis.reference, " - nana-intelligence">>

RECURSIVE ScanLines(_, _)
(* lines 165-173: the loop over the lines, st = subject, body_lines, in_body *)
ScanLines(lines, st) ==
    IF lines = <<>> THEN st
    ELSE LET line == Head(lines) IN
         ScanLines(Tail(lines),
             IF StartsWith(Upper(line), SUJET)
             THEN [st EXCEPT !.subject =
                      StripChars(StripLine(Replace(Replace(line, SUJET), sujet)), {"\"", "'"})]
             ELSE IF StripLine(line) = DELIMITER
             THEN [st EXCEPT !.in_body = TRUE]
             ELSE IF st.in_body
             THEN [st EXCEPT !.body_lines = Append(@, line)]
             ELSE st)

(* _parse_email_response, lines 155-189 *)
parse_email_response(response, lead, devis) ==
    LET lines == StripText(response)
        st == ScanLines(lines, [subject |-> DefaultSubject(devis),
                                body_lines |-> <<>>, in_body |-> FALSE])
        joined == StripText(st.body_lines)
        body_text == IF joined = EmptyText THEN StripText(response) ELSE joined
    IN  GeneratedEmail(st.subject, convert_to_html(body_text, devis), body_text)

(* lead.service_type.value.replace('_', ' ') *)
ServiceLabel(service_type) ==
    CASE service_type = "mass_mailing" -> "mass mailing"
      [] service_type = "automation_ia" -> "automation ia"
      [] service_type = "seo_growth" -> "seo growth"

(* _generate_fallback_email, lines 346-370 *)
generate_fallback_email(lead, devis) ==
    LET subject == <<lead.first_name, ", votre proposition commerciale ", devis.reference>>
        body_text ==
            << <<"Bonjour ", lead.first_name, ",">>,
               <<>>,
               <<"Suite à votre demande concernant ", ServiceLabel(lead.service_type),
                 ", j'ai le plaisir de vous transmettre notre proposition commerciale.">>,
               <<>>,
               <<"Vous trouverez ci-joint le devis détaillé pour un montant total de ",
                 ToString(devis.total_ttc), "€ TTC.">>,
               <<>>,
               <<"Ce devis est valable 30 jours. N'hésitez pas à me contacter pour toute question.">>,
               <<>>,
               <<"À très bientôt,">>,
               <<>>,
               <<"Juliette">>,
               <<"Consultante nana-intelligence">> >>
    IN  GeneratedEmail(subject, convert_to_html(body_text, devis), body_text)

generate_NoFallback(lead, devis, completion) ==
    IF completion.outcome = "raises"
    THEN [exc |-> "APIError", email |-> generate_fallback_email(lead, devis),
          fallback |-> FALSE]
    ELSE IF completion.outcome = "null"
    THEN [exc |-> "AttributeError", email |-> generate_fallback_email(lead, devis),
          fallback |-> FALSE]
    ELSE [exc |-> "", email |-> parse_email_response(completion.content, lead, devis),
          fallback |-> FALSE]

(* EmailGenerator.generate, lines 303-344: the try block holds the call    *)
(* and the parsing, and its except clause catches Exception. The call      *)
(* (OpenAIService.generate_completion) raises, or returns the content of   *)
(* the first choice, which is null when the model gives no text:           *)
(* None.strip() at line 158 is an AttributeError.                          *)
generate(lead, devis, completion) ==
    IF completion.outcome = "text"
    THEN [exc |-> "", email |-> parse_email_response(completion.content, lead, devis),
          fallback |-> FALSE]
    ELSE [exc |-> "", email |-> generate_fallback_email(lead, devis), fallback |-> TRUE]

(* Inputs: lines with the marker in several cases, delimiters, body lines  *)
EmailLines ==
    {<<"S", "U", "J", "E", "T", ":", " ", "O", "k">>,
     <<"s", "u", "j", "e", "t", ":", "\"", "O", "k", "\"">>,
     <<"S", "u", "j", "e", "t", ":", " ", "O", "k">>,
     <<"S", "U", "J", "E", "T", ":">>,
     <<>>, <<" ">>, <<"-", "-", "-">>, <<" ", "-", "-", "-", " ">>,
     <<"B", "o", "n", "j", "o", "u", "r">>,
     <<" ", "S", "U", "J", "E", "T", ":", " ", "O", "k">>}

RECURSIVE TextsOfLines(_)
TextsOfLines(n) ==
    IF n = 0 THEN {<<>>}
    ELSE LET shorter == TextsOfLines(n - 1)
         IN  shorter \cup {Append(t, l) : t \in {s \in shorter : Len(s) = n - 1},
                                          l \in EmailLines}

EmailResponses == TextsOfLines(MaxEmailLines) \ {<<>>}

(* The email drafter taken alone: one call of generate, or one call of     *)
(* _parse_email_response on a response of the model.                       *)
InitEmail ==
    /\ now = 0
    /\ PROCESSED_LEADS_CACHE = <<>>
    /\ PROCESSING_LEADS_CACHE = <<>>
    /\ handler = IdleHandler
    /\ tasks = <<>>
    /\ deliveries = 0
    /\ responses = <<>>
    /\ LET leads == {[first_name |-> "Jimmy", service_type |-> "mass_mailing"],
                     [first_name |-> "Alice", service_type |-> "seo_growth"]}
           quote == [reference |-> DevisReference(1), total_ttc |-> 960]
           completions ==
               {[outcome |-> o, content |-> EmptyText] : o \in {"raises", "null"}}
               \cup {[outcome |-> "text", content |-> r] : r \in EmailResponses}
       IN  gen \in {[pc |-> "generate", lead |-> l, devis |-> quote, completion |-> c] :
                        l \in leads, c \in completions}
               \cup {[pc |-> "parse_email", lead |-> l, devis |-> quote, response |-> r] :
                        l \in {[first_name |-> "Jimmy", service_type |-> "mass_mailing"]},
                        r \in EmailResponses}

GenerateEmail ==
    /\ gen.pc = "generate"
    /\ LET g == generate(gen.lead, gen.devis, gen.completion) IN
       gen' = [pc |-> IF g.exc = "" THEN "generated" ELSE "generate_raised",
               lead |-> gen.lead, devis |-> gen.devis, completion |-> gen.completion,
               exc |-> g.exc, email |-> g.email, fallback |-> g.fallback]
    /\ UNCHANGED <<now, PROCESSED_LEADS_CACHE, PROCESSING_LEADS_CACHE, handler, tasks,
                   deliveries, responses>>

ParseEmailResponse ==
    /\ gen.pc = "parse_email"
    /\ gen' = [pc |-> "parsed_email", lead |-> gen.lead, devis |-> gen.devis,
               response |-> gen.response,
               email |-> parse_email_response(gen.response, gen.lead, gen.devis)]
    /\ UNCHANGED <<now, PROCESSED_LEADS_CACHE, PROCESSING_LEADS_CACHE, handler, tasks,
                   deliveries, responses>>

NextEmail ==
    \/ GenerateEmail
    \/ ParseEmailResponse

SpecEmail == InitEmail /\ [][NextEmail]_vars

----------------------------------------------------------------------------
(* Vocabulary of the properties *)

HandlerSteps == handler' # handler

ResponseId == handler.lead[1]

TasksUntouched == tasks' = tasks

CachesUntouched ==
    /\ PROCESSED_LEADS_CACHE' = PROCESSED_LEADS_CACHE
    /\ PROCESSING_LEADS_CACHE' = PROCESSING_LEADS_CACHE

Called(trace, step, outcome) ==
    \E k \in DOMAIN trace : trace[k] = Call(step, outcome)

CalledAtAll(trace, step) ==
    \E k \in DOMAIN trace : trace[k].step = step

HasResult(t) == t.result # None

IsFormResponseFor(body, id) ==
    /\ Len(body.items) = 1
    /\ body.items[1] = Payload("FORM_RESPONSE", FilledFields, id)

(* InFlight: marker present and not older than the timeout, no outcome committed *)
InFlight(id) ==
    /\ DictHas(PROCESSING_LEADS_CACHE, id)
    /\ now - DictGet(PROCESSING_LEADS_CACHE, id) <= PROCESSING_TIMEOUT_SECONDS
    /\ ~DictHas(PROCESSED_LEADS_CACHE, id)

(* Completed: outcome committed and inside the retention window *)
Completed(id) ==
    /\ DictHas(PROCESSED_LEADS_CACHE, id)
    /\ now - DictGet(PROCESSED_LEADS_CACHE, id).timestamp <= CACHE_EXPIRY_SECONDS

----------------------------------------------------------------------------
(* C1: a delivery whose id is InFlight when the handler checks it is       *)
(* answered 'already processing' with lead_reference = id and no data; no  *)
(* background task is added and neither cache changes.                     *)
C1_InFlightDuplicateAcknowledged ==
    [][(HandlerSteps /\ handler.pc \in {"check_processed", "check_processing"}
          /\ InFlight(ResponseId))
       => /\ TasksUntouched
          /\ CachesUntouched
          /\ handler.pc = "check_processed" => handler'.pc = "check_processing"
          /\ handler.pc = "check_processing" =>
                /\ handler'.pc = "idle"
                /\ responses' = Sent(handler.body,
                       [status |-> 200, success |-> TRUE,
                        message |-> <<"Lead déjà en cours de traitement">>,
                        lead_reference |-> Some(ResponseId),
                        draft_id |-> None, data |-> None])]_vars

C1_Witness ==
    \E id \in ResponseIds :
        /\ responses # <<>>
        /\ IsFormResponseFor(responses[1].body, id)
        /\ responses[1].response.status = 200
        /\ responses[1].response.message = <<"Lead déjà en cours de traitement">>
        /\ InFlight(id)
        /\ Len(tasks) = 1
        /\ tasks[1].lead = id

(* C2: a delivery whose id has a committed outcome when the handler checks *)
(* it is answered with the stored record, field by field, and no           *)
(* background task is added.                                               *)
C2_CompletedDuplicateReturnsStoredRecord ==
    [][(HandlerSteps /\ handler.pc = "check_processed" /\ Completed(ResponseId))
       => LET stored == DictGet(PROCESSED_LEADS_CACHE, ResponseId).result IN
          /\ TasksUntouched
          /\ CachesUntouched
          /\ handler'.pc = "idle"
          /\ responses'[1].body = handler.body
          /\ responses'[1].response.status = 200
          /\ responses'[1].response.success = stored.success
          /\ responses'[1].response.message = stored.message
          /\ responses'[1].response.lead_reference = Some(stored.lead_reference)
          /\ responses'[1].response.data =
                (IF stored.success THEN Some(stored.data) ELSE None)]_vars

C2_Witness ==
    \E id \in ResponseIds :
        /\ responses # <<>>
        /\ IsFormResponseFor(responses[1].body, id)
        /\ Completed(id)
        /\ responses[1].response.status = 200
        /\ responses[1].response.success
        /\ DictGet(PROCESSED_LEADS_CACHE, id).result.success
        /\ responses[1].response.data =
               Some(DictGet(PROCESSED_LEADS_CACHE, id).result.data)
        /\ Len(tasks) = 1
        /\ tasks[1].pc = "done"
        /\ deliveries = 2

(* C3: no submission id is in the in-flight store and in the completed     *)
(* store at the same time.                                                 *)
C3_NoIdInBothStores ==
    DictKeys(PROCESSING_LEADS_CACHE) \cap DictKeys(PROCESSED_LEADS_CACHE) = {}

(* C4: when quote generation and PDF rendering return and create_draft     *)
(* raises, the result has success = true, devis_reference, pdf_path and    *)
(* total_ttc set, and no draft_id.                                         *)
C4_DraftFailureKeepsSuccess ==
    \A i \in DOMAIN tasks :
        (/\ HasResult(tasks[i])
         /\ Called(tasks[i].trace, "generate_with_context", "returns")
         /\ Called(tasks[i].trace, "pdf_service.generate", "returns")
         /\ Called(tasks[i].trace, "create_draft", "raises"))
        => LET result == tasks[i].result[1] IN
           /\ result.success
           /\ result.devis_reference # None
           /\ result.pdf_path # None
           /\ result.total_ttc # None
           /\ result.draft_id = None

C4_Witness ==
    \E i \in DOMAIN tasks :
        /\ HasResult(tasks[i])
        /\ Called(tasks[i].trace, "pdf_service.generate", "returns")
        /\ Called(tasks[i].trace, "create_draft", "raises")
        /\ tasks[i].result[1].success

(* C5: when quote generation or PDF rendering raises, the result has       *)
(* success = false, error = the exception's description, and no            *)
(* devis_reference, pdf_path or draft_id.                                  *)
C5_QuoteOrPdfFailureIsFatal ==
    \A i \in DOMAIN tasks :
        \A step \in {"generate_with_context", "pdf_service.generate"} :
            (HasResult(tasks[i]) /\ Called(tasks[i].trace, step, "raises"))
            => LET result == tasks[i].result[1] IN
               /\ ~result.success
               /\ result.error = Some(ErrorOf(step))
               /\ result.devis_reference = None
               /\ result.pdf_path = None
               /\ result.draft_id = None

C5_Witness ==
    \E i \in DOMAIN tasks :
        /\ HasResult(tasks[i])
        /\ Called(tasks[i].trace, "generate_with_context", "returns")
        /\ Called(tasks[i].trace, "pdf_service.generate", "raises")
        /\ ~tasks[i].result[1].success

(* C6: a valid FORM_RESPONSE delivery whose id was found in neither store  *)
(* gets its id marked in flight at the current time, one queued background *)
(* task that has run no pipeline step, and the 200 acknowledgment with     *)
(* success = true and lead_reference = id, all in the handler's last step; *)
(* no later step of a background task changes the response sent.           *)
C6_AcceptedBeforePipelineRuns ==
    /\ [][(HandlerSteps /\ handler.pc = "check_processing"
             /\ ~DictHas(PROCESSING_LEADS_CACHE, ResponseId))
          => handler'.pc = "mark"]_vars
    /\ [][(HandlerSteps /\ handler.pc = "mark")
          => /\ DictHas(PROCESSING_LEADS_CACHE', ResponseId)
             /\ DictGet(PROCESSING_LEADS_CACHE', ResponseId) = now
             /\ Len(tasks') = Len(tasks) + 1
             /\ SubSeq(tasks', 1, Len(tasks)) = tasks
             /\ tasks'[Len(tasks')] =
                    [lead |-> ResponseId, pc |-> "queued", result |-> None, trace |-> <<>>]
             /\ handler'.pc = "idle"
             /\ responses'[1].body = handler.body
             /\ responses'[1].response.status = 200
             /\ responses'[1].response.success
             /\ responses'[1].response.lead_reference = Some(ResponseId)
             /\ responses'[1].response.data = None]_vars
    /\ [][(\E i \in DOMAIN tasks : tasks'[i] # tasks[i]) => responses' = responses]_vars

C6_Witness ==
    \E id \in ResponseIds :
        /\ responses # <<>>
        /\ IsFormResponseFor(responses[1].body, id)
        /\ responses[1].response = AcceptedResponse(id)
        /\ tasks # <<>>
        /\ tasks[Len(tasks)] = NewTask(id)
        /\ DictHas(PROCESSING_LEADS_CACHE, id)
        /\ handler.pc = "idle"

TaskEnded(t) == t.pc \in {"done", "raised"}

TaskFailed(t) == t.result = None \/ ~t.result[1].success

(* C7: when a background task ends after a failure (the orchestrator       *)
(* returned success = false, or an exception was raised in the task), an   *)
(* outcome is stored under the task's id.                                  *)
C7_EveryAsyncFailureRecorded ==
    [][\A i \in DOMAIN tasks :
          (~TaskEnded(tasks[i]) /\ TaskEnded(tasks'[i]) /\ TaskFailed(tasks'[i]))
          => DictHas(PROCESSED_LEADS_CACHE', tasks[i].lead)]_vars

PurgedAsOf(current_time) ==
    /\ \A k \in DOMAIN PROCESSED_LEADS_CACHE :
          current_time - PROCESSED_LEADS_CACHE[k].val.timestamp <= CACHE_EXPIRY_SECONDS
    /\ \A k \in DOMAIN PROCESSING_LEADS_CACHE :
          current_time - PROCESSING_LEADS_CACHE[k].val <= PROCESSING_TIMEOUT_SECONDS

(* C8: when the handler checks an id, no completed entry older than        *)
(* CACHE_EXPIRY_SECONDS and no in-flight marker older than                 *)
(* PROCESSING_TIMEOUT_SECONDS (at the time the purge read the clock) is    *)
(* left in the stores; an id found in neither store is accepted: it is     *)
(* marked in flight and a new background task is queued for it.            *)
C8_CheckSeesNoExpiredEntry ==
    /\ [](handler.pc \in {"check_processed", "check_processing", "mark"}
            => PurgedAsOf(handler.current_time))
    /\ [][(HandlerSteps /\ handler.pc = "check_processed"
             /\ ~DictHas(PROCESSED_LEADS_CACHE, ResponseId))
          => handler'.pc = "check_processing"]_vars
    /\ [][(HandlerSteps /\ handler.pc = "check_processing"
             /\ ~DictHas(PROCESSING_LEADS_CACHE, ResponseId))
          => handler'.pc = "mark"]_vars
    /\ [][(HandlerSteps /\ handler.pc = "mark")
          => /\ tasks' = Append(tasks, NewTask(ResponseId))
             /\ responses'[1].response = AcceptedResponse(ResponseId)]_vars

(* the id of a task that never ran (its marker was set at acceptance) is   *)
(* accepted again: the marker can only have been purged                    *)
C8_Witness ==
    /\ handler.pc = "idle"
    /\ Len(tasks) = 2
    /\ tasks[1].lead = tasks[2].lead
    /\ tasks[1].pc = "queued"
    /\ tasks[2].pc = "queued"
    /\ responses[1].response = AcceptedResponse(tasks[2].lead)
    /\ DictGet(PROCESSING_LEADS_CACHE, tasks[2].lead) > PROCESSING_TIMEOUT_SECONDS

(* C9: when is_configured returns false, create_draft is not called in     *)
(* that run and the result has success = true and no draft_id.             *)
C9_UnconfiguredMailSkipsDraft ==
    \A i \in DOMAIN tasks :
        (HasResult(tasks[i]) /\ Called(tasks[i].trace, "is_configured", "false"))
        => /\ ~CalledAtAll(tasks[i].trace, "create_draft")
           /\ tasks[i].result[1].success
           /\ tasks[i].result[1].draft_id = None

C9_Witness ==
    \E i \in DOMAIN tasks :
        /\ HasResult(tasks[i])
        /\ Called(tasks[i].trace, "is_configured", "false")
        /\ tasks[i].result[1].success

(* C10: a POST whose body is an empty array is answered with status 400    *)
(* and changes neither cache.                                              *)
C10_EmptyArrayIs400 ==
    [][(handler.pc = "idle" /\ deliveries' = deliveries + 1
          /\ responses' # <<>> /\ responses' # responses
          /\ responses'[1].body = [is_list |-> TRUE, items |-> <<>>])
       => /\ responses'[1].response.status = 400
          /\ CachesUntouched]_vars

(* The body handled by a step that takes a delivery: the step either       *)
(* answers it at once or keeps it in the handler.                          *)
MissingRequired(body) ==
    /\ Len(body.items) >= 1
    /\ body.items[1].eventType = "FORM_RESPONSE"
    /\ \E i \in DOMAIN RequiredLabels :
          body.items[1].fields[RequiredLabels[i]] \in {None, Some("")}

NotFormResponse(body) ==
    /\ Len(body.items) >= 1
    /\ body.items[1].eventType # "FORM_RESPONSE"

(* C11: a FORM_RESPONSE delivery with a required field missing or empty is *)
(* answered 422 in the step that takes it; the handler is idle again, no   *)
(* in-flight marker is set, no task is added and neither cache changes.    *)
C11_MissingFieldIs422 ==
    [][(handler.pc = "idle" /\ deliveries' = deliveries + 1)
       => LET body == IF handler'.pc = "idle" THEN responses'[1].body
                      ELSE handler'.body IN
          MissingRequired(body)
          => /\ handler'.pc = "idle"
             /\ responses'[1].response.status = 422
             /\ CachesUntouched
             /\ TasksUntouched]_vars

C11_Witness ==
    /\ responses # <<>>
    /\ MissingRequired(responses[1].body)
    /\ responses[1].body.items[1].fields["Email Pro"] = Some("")
    /\ responses[1].response.status = 422
    /\ handler.pc = "idle"
    /\ Len(tasks) = 1
    /\ DictHas(PROCESSING_LEADS_CACHE, responses[1].body.items[1].responseId)

C13_NoCacheStepFails ==
    /\ (handler.pc = "del_processed" /\ handler.expired_keys # <<>>)
          => DictHas(PROCESSED_LEADS_CACHE, Head(handler.expired_keys))
    /\ (handler.pc = "del_processing" /\ handler.expired_processing # <<>>)
          => DictHas(PROCESSING_LEADS_CACHE, Head(handler.expired_processing))
    /\ \A i \in DOMAIN tasks :
          tasks[i].pc \in {"mark_del", "except_del"}
          => DictHas(PROCESSING_LEADS_CACHE, tasks[i].lead)

----------------------------------------------------------------------------
(* Vocabulary of the quote generator's properties *)

ParseReturned == gen.pc \in {"parsed", "built"}

ParseEnded == gen.pc \in {"parsed", "built", "raised"}

(* some parse tier produced a schema-valid payload *)
SomeTierParsed(tiers) ==
    \E k \in DOMAIN tiers : tiers[k].tier \in {"direct", "extraction"} /\ tiers[k].outcome = ""

(* C15: _parse_response never raises; what it returns has a title, an      *)
(* introduction and at least one line item, and is the lead-based fallback *)
(* payload whenever neither parse tier produced a schema-valid payload.    *)
C15_ValidatorNeverRaises ==
    ParseEnded
    => /\ gen.devis_data.exc = ""
       /\ gen.devis_data.data.titre # ""
       /\ gen.devis_data.data.introduction # ""
       /\ Len(gen.devis_data.data.lignes_devis) >= 1
       /\ ~SomeTierParsed(gen.devis_data.tiers)
             => gen.devis_data.data = FallbackPayload(gen.lead)

(* The bucket table as rows: a row matches a lower-cased hint that         *)
(* contains one of its `any` texts, or all of its `all` texts.             *)
Row(any, all, value) == [any |-> any, all |-> all, value |-> value]

RowMatches(row, hint) ==
    \/ \E pattern \in row.any : Contains(hint, pattern)
    \/ row.all # {} /\ \A pattern \in row.all : Contains(hint, pattern)

TableAsStated ==
    <<Row({<<"<", "1">>, <<"<", " ", "1">>}, {}, 800),
      Row({}, {<<"1">>, <<"3">>}, 2000),
      Row({}, {<<"3">>, <<"5">>}, 4000),
      Row({}, {<<"5">>, <<"1", "0">>}, 7500),
      Row({<<"1", "0">>, <<"+">>, <<">">>}, {}, 12000)>>

TableAsCoded ==
    [TableAsStated EXCEPT ![1].any =
        @ \cup {<<"m", "o", "i", "n", "s", " ", "d", "e", " ", "1">>}]

FirstMatchingRow(table, budget_range) ==
    IF budget_range = None THEN 1500
    ELSE LET hint == Lower(budget_range[1])
             matching == {k \in DOMAIN table : RowMatches(table[k], hint)}
         IN  IF matching = {} THEN 1500
             ELSE table[CHOOSE k \in matching : \A j \in matching : k <= j].value

(* C16 (as stated): the fallback price of a hint is the value of the first *)
(* matching row of the five-row table whose first row is '<1' or '< 1',    *)
(* and 1500 for an absent hint or a hint matching no row.                  *)
C16_BucketTableAsStated ==
    gen.pc = "estimated"
    => gen.price = Dec(FirstMatchingRow(TableAsStated, gen.budget_range), 0)

(* C16 (amended): the same, with a first row that also matches a hint      *)
(* containing 'moins de 1'.                                                *)
C16_BucketTable ==
    gen.pc = "estimated"
    => gen.price = Dec(FirstMatchingRow(TableAsCoded, gen.budget_range), 0)

C16_Witness ==
    /\ gen.pc = "estimated"
    /\ gen.budget_range =
          Some(<<"M", "o", "i", "n", "s", " ", "d", "e", " ", "1", " ", "0", "0", "0", "€">>)
    /\ gen.price = Dec(800, 0)

(* the run went through both parse tiers and neither produced a payload *)
BothTiersFailed ==
    /\ ParseReturned
    /\ ~SomeTierParsed(gen.devis_data.tiers)

BucketOf(lead) == FirstMatchingRow(TableAsCoded, lead.budget_range)

Budget_LessThan1000 == Some(<<"<", " ", "1", " ", "0", "0", "0", "€">>)

Budget_3To5k == Some(<<"3", "-", "5", "k", "€">>)

(* C17: when neither parse tier produced a payload, the quote built has    *)
(* exactly one item, of quantity 1 and unit price the bucket value of the  *)
(* lead's budget hint; its title is 'Devis <service name> - <company, or   *)
(* full name when there is no company>'; the total read from it is the     *)
(* bucket value plus 20%. Budget '< 1 000€' gives 800.0 and total 960.0,   *)
(* budget '3-5k€' gives 4000.0.                                            *)
C17_FallbackQuote ==
    (gen.pc = "built" /\ BothTiersFailed)
    => /\ Len(gen.devis.items) = 1
       /\ gen.devis.items[1].quantity = 1
       /\ gen.devis.items[1].unit_price = Dec(BucketOf(gen.lead), 0)
       /\ gen.devis.title =
              "Devis " \o ServiceName(gen.lead.service_type) \o " - " \o
              (IF gen.lead.company \in {None, Some("")} THEN full_name(gen.lead)
               ELSE gen.lead.company[1])
       /\ gen.total_ttc = Dec(12 * BucketOf(gen.lead), 1)
       /\ gen.lead.budget_range = Budget_LessThan1000
             => /\ gen.devis.items[1].unit_price = Dec(800, 0)
                /\ gen.total_ttc = Dec(960, 0)
       /\ gen.lead.budget_range = Budget_3To5k
             => gen.devis.items[1].unit_price = Dec(4000, 0)

C17_Witness ==
    /\ gen.pc = "built"
    /\ gen.response = <<Prose>>
    /\ gen.devis_data.tiers =
          <<Tried("direct", "JSONDecodeError"), Tried("fallback", "")>>
    /\ gen.lead = Lead("Jimmy", "Gay", Some("nana-intelligence"), "mass_mailing",
                       Budget_LessThan1000)
    /\ gen.devis.title = "Devis Mass Mailing - nana-intelligence"
    /\ gen.total_ttc = Dec(960, 0)

(* the payload _parse_response returns for another lead and the response   *)
(* of this run, once neither tier parsed it: the tiers do not read the     *)
(* lead                                                                    *)
PayloadFor == [lead \in Leads |-> FallbackPayload(lead)]

BucketValue == [lead \in Leads |-> BucketOf(lead)]

Budget_3a5k == Some(<<"3", " ", "à", " ", "5", "k">>)

(* C18 (as stated): for the same unparseable response, the fallback        *)
(* payloads of two leads that differ in budget hint and in service         *)
(* category differ in title and in line-item unit price.                   *)
C18_FallbacksDifferAsStated ==
    (gen.pc = "parsed" /\ BothTiersFailed)
    => \A other \in Leads :
          (/\ other.budget_range # gen.lead.budget_range
           /\ other.service_type # gen.lead.service_type)
          => /\ PayloadFor[other].titre # gen.devis_data.data.titre
             /\ PayloadFor[other].lignes_devis[1].prix_unitaire
                   # gen.devis_data.data.lignes_devis[1].prix_unitaire

(* C18 (amended): for the same unparseable response, the fallback payloads *)
(* of two leads that differ in service category differ in title, and their *)
(* line-item unit prices differ exactly when the two budget hints select   *)
(* different values of the bucket table.                                   *)
C18_FallbacksDiffer ==
    (gen.pc = "parsed" /\ BothTiersFailed)
    => \A other \in Leads :
          /\ other.service_type # gen.lead.service_type
                => PayloadFor[other].titre # gen.devis_data.data.titre
          /\ (PayloadFor[other].lignes_devis[1].prix_unitaire
                 # gen.devis_data.data.lignes_devis[1].prix_unitaire)
             <=> BucketValue[other] # BucketValue[gen.lead]

C18_Witness ==
    /\ gen.pc = "parsed"
    /\ gen.response = <<Prose>>
    /\ BothTiersFailed
    /\ gen.lead = Lead("Alice", "Martin", Some("TechCorp"), "seo_growth", Budget_3To5k)
    /\ LET other == Lead("Bob", "Dupont", Some(""), "automation_ia", Budget_3a5k) IN
       /\ other \in Leads
       /\ PayloadFor[other].titre = "Devis Automation Ia - Bob Dupont"
       /\ gen.devis_data.data.titre = "Devis Seo Growth - TechCorp"
       /\ PayloadFor[other].lignes_devis[1].prix_unitaire = Dec(4000, 0)
       /\ gen.devis_data.data.lignes_devis[1].prix_unitaire = Dec(4000, 0)

(* Reading a text of digits with at most one dot as a decimal: the digit   *)
(* at position i counts for 10^(number of digits to its right), and the    *)
(* number of digits right of the dot is the scale.                         *)
RECURSIVE WeightedDigits(_, _)
WeightedDigits(text, i) ==
    IF i > Len(text) THEN 0
    ELSE IF text[i] = "." THEN WeightedDigits(text, i + 1)
    ELSE DigitValue(text[i])
           * Pow10(Cardinality({j \in (i + 1)..Len(text) : text[j] # "."}))
         + WeightedDigits(text, i + 1)

DotsIn(text) == {i \in DOMAIN text : text[i] = "."}

Readable(text) ==
    /\ Cardinality(DotsIn(text)) <= 1
    /\ Cardinality(DotsIn(text)) < Len(text)

DecimalRead(text) ==
    Dec(WeightedDigits(text, 1),
        IF DotsIn(text) = {} THEN 0
        ELSE Len(text) - (CHOOSE i \in DotsIn(text) : TRUE))

(* the claim's rule for a price text and for a quantity text *)
PriceText(text) ==
    LET kept == SelectSeq(text, LAMBDA c : IsDigit(c) \/ c = "." \/ c = ",")
    IN  [i \in DOMAIN kept |-> IF kept[i] = "," THEN "." ELSE kept[i]]

QuantityText(text) == SelectSeq(text, IsDigit)

(* a raw quantity that LLMDevisLine accepts *)
QuantityAccepted(q) ==
    \/ q.t \in {"absent", "null"}
    \/ q.t = "int" /\ q.n.m >= 1
    \/ q.t = "float" /\ q.n.m >= Pow10(q.n.e)
    \/ q.t = "str" /\ (QuantityText(q.s) = <<>> \/ WeightedDigits(QuantityText(q.s), 1) >= 1)

(* a raw price that LLMDevisLine accepts *)
PriceAccepted(p) ==
    \/ p.t = "null"
    \/ p.t \in {"int", "float"} /\ p.n.m >= 0
    \/ p.t = "str" /\ (PriceText(p.s) = <<>> \/ Readable(PriceText(p.s)))

(* C19: validating a line whose unit_price is a text from which, once      *)
(* every character other than digits, '.' and ',' is removed and ',' is    *)
(* replaced by '.', a decimal can be read, gives that decimal as           *)
(* prix_unitaire; a quantity text with at least one digit gives the        *)
(* integer written by its digits; '1 500€' gives 1500.0 and '5' gives 5.   *)
(* The payload _parse_response returns carries the same values.            *)
C19_TextCoercion ==
    /\ gen.pc = "validated"
       => LET prix == gen.line.prix_unitaire
              quantite == gen.line.quantite
          IN  /\ (/\ prix.t = "str" /\ PriceText(prix.s) # <<>>
                   /\ Readable(PriceText(prix.s)) /\ QuantityAccepted(quantite))
                  => /\ gen.validated.exc = ""
                     /\ gen.validated.value.prix_unitaire = DecimalRead(PriceText(prix.s))
              /\ (/\ quantite.t = "str" /\ QuantityText(quantite.s) # <<>>
                   /\ WeightedDigits(QuantityText(quantite.s), 1) >= 1
                   /\ PriceAccepted(prix))
                  => /\ gen.validated.exc = ""
                     /\ gen.validated.value.quantite
                           = WeightedDigits(QuantityText(quantite.s), 1)
              /\ (prix = JStr(Text_1500_EUR) /\ quantite = JStr(<<"5">>))
                  => /\ gen.validated.value.prix_unitaire = Dec(1500, 0)
                     /\ gen.validated.value.quantite = 5
    /\ (ParseReturned /\ gen.devis_data.tiers = <<Tried("direct", "")>>
           /\ Len(gen.response) = 1)
       => LET lines == gen.response[1].doc.lignes_devis.lines
              dumped == gen.devis_data.data.lignes_devis
          IN  \A i \in DOMAIN lines :
                 /\ lines[i].prix_unitaire.t = "str"
                       => dumped[i].prix_unitaire
                            = DecimalRead(PriceText(lines[i].prix_unitaire.s))
                 /\ lines[i].quantite.t = "str"
                       => dumped[i].quantite
                            = WeightedDigits(QuantityText(lines[i].quantite.s), 1)

C19_Witness ==
    /\ gen.pc = "validated"
    /\ gen.line.prix_unitaire = JStr(Text_1500_EUR)
    /\ gen.line.quantite = JStr(<<"5">>)
    /\ gen.validated = Returns(DumpedLine("Audit SEO complet", None, 5, Dec(1500, 0)))

(* Sum over the items of quantity * unit_price, as an integer number of    *)
(* units 10^-scale                                                         *)
RECURSIVE ScaledSum(_, _)
ScaledSum(items, scale) ==
    IF items = <<>> THEN 0
    ELSE Head(items).quantity * Head(items).unit_price.m
           * Pow10(scale - Head(items).unit_price.e)
         + ScaledSum(Tail(items), scale)

MaxScale(items) ==
    IF items = <<>> THEN 0
    ELSE CHOOSE e \in {items[i].unit_price.e : i \in DOMAIN items} :
            \A i \in DOMAIN items : items[i].unit_price.e <= e

(* round(x, 2) of a non-negative decimal, ties to even *)
Round2(d) ==
    IF d.e <= 2 THEN d
    ELSE LET unit == Pow10(d.e - 2)
             quotient == d.m \div unit
             rest == d.m % unit
         IN  IF 2 * rest > unit \/ (2 * rest = unit /\ quotient % 2 = 1)
             THEN Dec(quotient + 1, 2)
             ELSE Dec(quotient, 2)

FromValidPayload ==
    /\ gen.pc = "built"
    /\ SomeTierParsed(gen.devis_data.tiers)

(* C20 (as stated): the total of a quote built from a valid line-item      *)
(* payload is the sum over its items of quantity * unit_price, times 1.2,  *)
(* rounded to 2 decimals.                                                  *)
C20_TotalRoundedAsStated ==
    FromValidPayload
    => gen.total_ttc =
          Round2(Dec(12 * ScaledSum(gen.devis.items, MaxScale(gen.devis.items)),
                     MaxScale(gen.devis.items) + 1))

(* C20 (amended): the total read from a quote built from a valid line-item *)
(* payload is subtotal + 20% of subtotal, where subtotal is the sum over   *)
(* its items of quantity * unit_price, with no rounding; the quote keeps   *)
(* its items and no amount.                                                *)
C20_TotalRecomputedUnrounded ==
    FromValidPayload
    => /\ gen.total_ttc =
             Dec(10 * ScaledSum(gen.devis.items, MaxScale(gen.devis.items))
                   + 2 * ScaledSum(gen.devis.items, MaxScale(gen.devis.items)),
                 MaxScale(gen.devis.items) + 1)
       /\ DOMAIN gen.devis \cap {"subtotal", "tva", "total_ttc"} = {}

C20_Witness ==
    /\ FromValidPayload
    /\ Len(gen.devis.items) = 2
    /\ gen.devis.items[1].quantity = 2
    /\ gen.devis.items[1].unit_price = Dec(3333, 2)
    /\ gen.devis.items[2].quantity = 5
    /\ gen.devis.items[2].unit_price = Dec(1500, 0)
    /\ gen.total_ttc = Dec(9079992, 3)

----------------------------------------------------------------------------
(* Vocabulary of the email drafter's properties *)

GenerateEnded == gen.pc \in {"generated", "generate_raised"}

FallbackSubject(lead, devis) ==
    <<lead.first_name, ", votre proposition commerciale ", devis.reference>>

(* C21: every call of the email drafter's generate returns a GeneratedEmail *)
(* and none raises; when the completion call raised, or gave nothing that  *)
(* can be parsed, the email returned is the fallback email, whose subject  *)
(* is made of the lead's first name and the quote's reference.             *)
C21_GenerateNeverRaises ==
    GenerateEnded =>
        /\ gen.pc = "generated"
        /\ gen.exc = ""
        /\ DOMAIN gen.email = {"subject", "body_html", "body_text"}
        /\ gen.completion.outcome # "text" =>
              /\ gen.fallback
              /\ gen.email = generate_fallback_email(gen.lead, gen.devis)
              /\ gen.email.subject = FallbackSubject(gen.lead, gen.devis)
        /\ gen.completion.outcome = "text" => ~gen.fallback

C21_Witness ==
    /\ gen.pc = "generated"
    /\ gen.completion.outcome = "null"
    /\ gen.email.subject = <<"Alice", ", votre proposition commerciale ", DevisReference(1)>>

----------------------------------------------------------------------------
(* Vocabulary of the orchestrator's properties *)

StepOrder ==
    <<"generate_with_context", "pdf_service.generate", "email_generator.generate",
      "is_configured", "create_draft">>

Returned(call) == call.outcome \in {"returns", "true"}

HandledInStep(call) == call.step = "create_draft"

(* C22: in every run of process_lead the calls made are, in this order,    *)
(* quote generation, PDF rendering, email generation and draft delivery    *)
(* (the configuration test, then the draft creation), each made only after *)
(* the previous one returned; a call that raises outside a handler of its  *)
(* own step is the last call of the run, and the run's outcome is failed.  *)
C22_StepsInOrder ==
    \A i \in DOMAIN tasks :
        HasResult(tasks[i]) =>
            LET trace == tasks[i].trace
                result == tasks[i].result[1]
            IN  /\ Len(trace) \in 1..Len(StepOrder)
                /\ \A k \in DOMAIN trace : trace[k].step = StepOrder[k]
                /\ \A k \in 2..Len(trace) : Returned(trace[k - 1])
                /\ \A k \in DOMAIN trace :
                      trace[k].outcome = "raises" /\ ~HandledInStep(trace[k]) =>
                          /\ k = Len(trace)
                          /\ ~result.success
                          /\ result.error = Some(ErrorOf(trace[k].step))
                /\ (\A k \in DOMAIN trace : trace[k].outcome # "raises" \/ HandledInStep(trace[k]))
                      => result.success

C22_Witness ==
    \E i, j \in DOMAIN tasks :
        /\ HasResult(tasks[i]) /\ HasResult(tasks[j])
        /\ Len(tasks[i].trace) = 5 /\ tasks[i].result[1].success
        /\ Len(tasks[j].trace) = 2 /\ tasks[j].trace[2] = Call("pdf_service.generate", "raises")
        /\ ~tasks[j].result[1].success

(* C28: every run of process_lead returns one outcome, and its fields      *)
(* agree: lead_reference is the lead's submission id; with success=true    *)
(* devis_reference, pdf_path and total_ttc are set and error is absent;    *)
(* with success=false error is set and devis_reference, pdf_path, draft_id *)
(* and total_ttc are absent; draft_id is set only when create_draft was    *)
(* called and returned.                                                    *)
C28_OutcomeFieldsConsistent ==
    \A i \in DOMAIN tasks :
        /\ Len(tasks[i].result) <= 1
        /\ tasks[i].pc \in {"mark_test", "mark_del", "mark_put"} => HasResult(tasks[i])
        /\ HasResult(tasks[i]) =>
            LET result == tasks[i].result[1] IN
            /\ result.lead_reference = tasks[i].lead
            /\ result.success \in BOOLEAN
            /\ result.success =>
                  /\ result.devis_reference # None
                  /\ result.pdf_path # None
                  /\ result.total_ttc # None
                  /\ result.error = None
            /\ ~result.success =>
                  /\ result.error # None
                  /\ result.devis_reference = None
                  /\ result.pdf_path = None
                  /\ result.draft_id = None
                  /\ result.total_ttc = None
            /\ result.draft_id # None =>
                  Called(tasks[i].trace, "create_draft", "returns")

C28_Witness ==
    \E i, j \in DOMAIN tasks :
        /\ HasResult(tasks[i]) /\ HasResult(tasks[j])
        /\ tasks[i].result[1].success /\ tasks[i].result[1].draft_id # None
        /\ Called(tasks[j].trace, "pdf_service.generate", "raises")
        /\ ~tasks[j].result[1].success /\ tasks[j].result[1].error # None

----------------------------------------------------------------------------
(* Vocabulary of the background task's properties *)

TasksOf(id) == {i \in DOMAIN tasks : tasks[i].lead = id}

RaisedBeforeOutcome(t) == TaskEnded(t) /\ ~HasResult(t)

AcceptedAnew(id) ==
    /\ deliveries = 2
    /\ responses # <<>>
    /\ IsFormResponseFor(responses[1].body, id)
    /\ responses[1].response = AcceptedResponse(id)
    /\ Len(tasks) = 2
    /\ tasks[2].lead = id

(* C23: when the background processing of an accepted id has ended by an   *)
(* exception raised before process_lead returned an outcome, the id has no *)
(* in-flight marker and no completed entry, so a later delivery of the id  *)
(* finds it in neither store and is accepted and processed anew.           *)
C23_RaisedTaskReleasesId ==
    \A id \in ResponseIds :
        (TasksOf(id) # {} /\ \A i \in TasksOf(id) : RaisedBeforeOutcome(tasks[i])) =>
            /\ ~DictHas(PROCESSING_LEADS_CACHE, id)
            /\ ~DictHas(PROCESSED_LEADS_CACHE, id)
            /\ (handler.pc \in {"check_processed", "check_processing"} /\ handler.lead[1] = id)
                  => ~InProcessedCache(id) /\ ~InProcessingCache(id)

C23_Witness ==
    \E id \in ResponseIds :
        /\ AcceptedAnew(id)
        /\ tasks[1].lead = id
        /\ RaisedBeforeOutcome(tasks[1])
        /\ tasks[1].pc = "done"
        /\ tasks[2].pc = "queued"
        /\ now = 0
        /\ DictKeys(PROCESSING_LEADS_CACHE) = {id}

MarkSteps == {"mark_test", "mark_del", "mark_put"}

OtherEntriesUnchanged(id) ==
    /\ \A k \in DictKeys(PROCESSED_LEADS_CACHE) \cup DictKeys(PROCESSED_LEADS_CACHE') :
          k # id => /\ DictHas(PROCESSED_LEADS_CACHE, k)
                    /\ DictHas(PROCESSED_LEADS_CACHE', k)
                    /\ DictGet(PROCESSED_LEADS_CACHE', k) = DictGet(PROCESSED_LEADS_CACHE, k)
    /\ \A k \in DictKeys(PROCESSING_LEADS_CACHE) \cup DictKeys(PROCESSING_LEADS_CACHE') :
          k # id => /\ DictHas(PROCESSING_LEADS_CACHE, k)
                    /\ DictHas(PROCESSING_LEADS_CACHE', k)
                    /\ DictGet(PROCESSING_LEADS_CACHE', k) = DictGet(PROCESSING_LEADS_CACHE, k)

(* C24: mark_lead_as_processed(id, outcome) succeeds whatever the state of *)
(* id: none of its steps raises, each step leaves the entries of other ids *)
(* unchanged, and when it returns id has no in-flight marker and its       *)
(* completed entry is the given outcome with the current time.             *)
C24_MarkCompletedAlwaysSucceeds ==
    [][\A i \in DOMAIN tasks :
          (tasks[i].pc \in MarkSteps /\ tasks'[i] # tasks[i]) =>
              /\ tasks'[i].pc \in MarkSteps \cup {"done"}
              /\ OtherEntriesUnchanged(tasks[i].lead)
              /\ tasks'[i].pc = "done" =>
                    /\ ~DictHas(PROCESSING_LEADS_CACHE', tasks[i].lead)
                    /\ DictHas(PROCESSED_LEADS_CACHE', tasks[i].lead)
                    /\ DictGet(PROCESSED_LEADS_CACHE', tasks[i].lead) =
                          [timestamp |-> now,
                           result |-> ResponseData(tasks[i].lead, tasks[i].result[1])]]_vars

FailedRecord(id, error) ==
    [success |-> FALSE, message |-> <<"Erreur", error>>, lead_reference |-> id]

(* C29: a failed outcome of process_lead is committed to the completed     *)
(* store by the same steps as a successful one, as a record with           *)
(* success=false and the error; a delivery of the id checked while that    *)
(* entry is in the store is answered with this record, and neither marks   *)
(* the id nor queues a task.                                               *)
C29_FailureCachedLikeSuccess ==
    [][/\ \A i \in DOMAIN tasks :
             (tasks[i].pc = "mark_put" /\ tasks'[i].pc # "mark_put"
                 /\ ~tasks[i].result[1].success) =>
                 /\ tasks'[i].pc = "done"
                 /\ DictHas(PROCESSED_LEADS_CACHE', tasks[i].lead)
                 /\ DictGet(PROCESSED_LEADS_CACHE', tasks[i].lead) =
                       [timestamp |-> now,
                        result |-> FailedRecord(tasks[i].lead, tasks[i].result[1].error)]
       /\ (/\ handler.pc = "check_processed"
           /\ handler'.pc # "check_processed"
           /\ DictHas(PROCESSED_LEADS_CACHE, handler.lead[1])
           /\ ~DictGet(PROCESSED_LEADS_CACHE, handler.lead[1]).result.success) =>
              /\ handler'.pc = "idle"
              /\ responses'[1].response.status = 200
              /\ responses'[1].response.success = FALSE
              /\ responses'[1].response.lead_reference = Some(handler.lead[1])
              /\ responses'[1].response.message =
                     DictGet(PROCESSED_LEADS_CACHE, handler.lead[1]).result.message
              /\ responses'[1].response.data = None
              /\ TasksUntouched
              /\ CachesUntouched]_vars

C29_Witness ==
    \E id \in ResponseIds :
        /\ deliveries = 2
        /\ handler.pc = "idle"
        /\ responses # <<>>
        /\ IsFormResponseFor(responses[1].body, id)
        /\ responses[1].response.status = 200
        /\ responses[1].response.success = FALSE
        /\ Completed(id)
        /\ now > 0
        /\ Len(tasks) = 1
        /\ tasks[1].pc = "done"
        /\ ~tasks[1].result[1].success

----------------------------------------------------------------------------
(* Vocabulary of the validator's tiers *)

TierRank(tier) ==
    CASE tier = "direct" -> 1 [] tier = "extraction" -> 2 [] tier = "fallback" -> 3

DirectTier == DecodeAndValidate(StripFences(gen.response))

ExtractionTier == DecodeAndValidate(extract_json_from_text(gen.response))

LastTier == gen.devis_data.tiers[Len(gen.devis_data.tiers)]

(* C25: _parse_response tries the direct parse first, then the extraction  *)
(* parse, then the fallback; a tier is tried only when every tier before   *)
(* it failed to decode or to validate, and what is returned is the result  *)
(* of the first tier that gave a schema-valid payload: the extraction's    *)
(* only when the direct parse failed, the fallback only when the direct    *)
(* parse failed and the extraction found nothing or failed too.            *)
C25_TiersInOrder ==
    ParseEnded =>
        LET tiers == gen.devis_data.tiers
            data == gen.devis_data.data
            extracted == extract_json_from_text(gen.response)
        IN  /\ tiers # <<>>
            /\ tiers[1] = Tried("direct", DirectTier.exc)
            /\ \A k \in 2..Len(tiers) :
                  /\ TierRank(tiers[k - 1].tier) < TierRank(tiers[k].tier)
                  /\ tiers[k - 1].outcome \in ValidationFailures
            /\ \A k \in DOMAIN tiers :
                  tiers[k].tier = "extraction" =>
                      extracted # None /\ tiers[k].outcome = ExtractionTier.exc
            /\ ParseReturned =>
                  /\ LastTier.outcome = ""
                  /\ LastTier.tier = "direct" => data = DirectTier.value
                  /\ LastTier.tier = "extraction" => data = ExtractionTier.value
                  /\ LastTier.tier = "fallback" =>
                        /\ data = FallbackPayload(gen.lead)
                        /\ DirectTier.exc \in ValidationFailures
                        /\ extracted = None \/ ExtractionTier.exc \in ValidationFailures
                  /\ (DirectTier.exc \in ValidationFailures /\ extracted # None
                         /\ ExtractionTier.exc = "")
                        => LastTier.tier = "extraction"

C25_Witness ==
    /\ gen.pc = "parsed"
    /\ gen.devis_data.tiers = <<Tried("direct", "JSONDecodeError"), Tried("extraction", "")>>
    /\ gen.devis_data.data = ExtractionTier.value
    /\ gen.devis_data.data # FallbackPayload(gen.lead)

NoDecimalIn(p) == p.t = "str" /\ ~Readable(PriceText(p.s))

(* C26: a line item with a description and an acceptable quantity whose    *)
(* unit_price is absent, or is a text from which no decimal can be read,   *)
(* passes validation, with prix_unitaire equal to 0.                       *)
C26_MissingPriceIsZero ==
    (/\ gen.pc = "validated"
     /\ gen.line.description \notin {None, Some("")}
     /\ QuantityAccepted(gen.line.quantite)
     /\ gen.line.prix_unitaire.t = "absent" \/ NoDecimalIn(gen.line.prix_unitaire))
    => /\ gen.validated.exc = ""
       /\ gen.validated.value.prix_unitaire = Dec(0, 0)

----------------------------------------------------------------------------
(* Vocabulary of the email parser's properties *)

MarkedLines(lines) == {i \in DOMAIN lines : StartsWith(Upper(lines[i]), SUJET)}

AfterMarker(line) == SubSeq(line, Len(SUJET) + 1, Len(line))

Trimmed(text) == StripChars(StripLine(text), {"\"", "'"})

(* C27: when a line of the response begins with the subject marker, in any *)
(* letter case, the subject is the text of such a line after the marker    *)
(* (surrounding blanks and quotes aside); when no line begins with the     *)
(* marker, the subject is the default one built from the quote's reference *)
(* and the body text is the entire response, with or without a delimiter   *)
(* line.                                                                   *)
C27_SubjectAndBody ==
    gen.pc = "parsed_email" =>
        LET lines == StripText(gen.response)
            marked == MarkedLines(lines)
        IN  /\ marked # {} =>
                  \E i \in marked : Trimmed(gen.email.subject) = Trimmed(AfterMarker(lines[i]))
            /\ marked = {} =>
                  /\ gen.email.subject = DefaultSubject(gen.devis)
                  /\ gen.email.body_text = StripText(gen.response)

Settled(i) ==
    /\ i \in DOMAIN tasks
    /\ TaskEnded(tasks[i])
    /\ (\A j \in TasksOf(tasks[i].lead) : TaskEnded(tasks[j]))
          => ~DictHas(PROCESSING_LEADS_CACHE, tasks[i].lead)
    /\ HasResult(tasks[i]) =>
          /\ DictHas(PROCESSED_LEADS_CACHE, tasks[i].lead)
          /\ DictGet(PROCESSED_LEADS_CACHE, tasks[i].lead).result
                = ResponseData(tasks[i].lead, tasks[i].result[1])

(* C30: every accepted delivery is eventually settled: its background task *)
(* terminates, the in-flight marker set for it is then absent, and when    *)
(* process_lead returned an outcome, that outcome is the id's completed    *)
(* entry.                                                                  *)
C30_AcceptedEventuallySettled ==
    \A i \in 1..MaxDeliveries :
        (i \in DOMAIN tasks /\ ~TaskEnded(tasks[i])) ~> Settled(i)

====
